---- MODULE Spec2Model ----
\* Covenant-section extraction (carlosabrx/covrev): the span-based regex
\* extractor (covenant-extraction/src/regex_extractor.py), its confidence
\* scorer, section span and deduplicator, the line-window extractor
\* (src/covenant_extractor/extractor.py), the LLM bridge and the LLM
\* extractor's deduplication, the PDF text source and the command line.
EXTENDS Integers, Sequences, FiniteSets, TLC

VARIABLES
    pc,            \* "call" before the operation runs, "return" after it
    op,            \* the operation being called
    sections,      \* the list handed to _deduplicate_sections
    returned,      \* the list the operation returns
    text,          \* the section text given to _calculate_confidence
    config,        \* the keyword / indicator lists given to _calculate_confidence
    value,         \* the confidence a model reply supplies to ExtractedCovenant
    confidence,    \* the confidence computed (or validated)
    matches,       \* the regex matches of the document, with their section content
    covenant_types,\* the covenant types requested from Design B
    raised,        \* the exception the operation raised, or "none"
    lines,         \* Design A: the lines of the text, each a sequence of words
    targets,       \* Design A: the requested target names
    max_section_lines, \* Design A: the line window
    results,       \* Design A: canonical target -> list of CovenantSection
    target_name,   \* the string given to normalize_target, a sequence of characters
    normalized,    \* the string normalize_target returns
    text_line,     \* the line given to is_heading_line, a sequence of words
    heading,       \* the value is_heading_line returns
    api_key,       \* LLM bridge: the api_key argument ("" for None or empty)
    env_key,       \* the OPENAI_API_KEY environment variable ("" for unset or empty)
    importable,    \* whether "from openai import OpenAI" succeeds
    request_outcome, \* what client.chat.completions.create does: "ok" or "error"
    reply_content, \* the message content of the completion
    client_constructed, \* whether OpenAI(api_key=...) has been called
    requests_issued,    \* number of completion requests sent
    llm_result,    \* the mapping llm_extract_covenants returns
    pdf_files,     \* batch: the documents to process, in order
    mode,          \* batch: --mode of the CLI ("regex", "llm" or "both")
    doc_index,     \* batch: number of documents the loop has gone through
    outputs,       \* batch: the outputs produced so far, in order
    input_path,    \* CLI: what --inputs names in the file system
    out_dir,       \* CLI: the files of the output directory
    printed,       \* CLI: the lines printed by main
    fitz,          \* pdf_utils: the module global fitz ("module" or "None")
    pdfminer,      \* pdf_utils: whether pdfminer.high_level can be imported
    file_path,     \* pdf_utils: what file_path names and how the libraries fare on it
    max_pages,     \* pdf_utils: the max_pages argument (<<>> for None, <<n>> for n)
    library_calls, \* pdf_utils: the calls made on the PDF libraries, in order
    start_pos,     \* Design B: the start of the regex match
    initial_end    \* Design B: the end of the regex match

dedupVars == <<sections, returned>>
scoreVars == <<text, config, value, confidence>>
designBVars == <<matches, covenant_types, raised>>
designAVars == <<lines, targets, max_section_lines, results>>
patternVars == <<target_name, normalized, text_line, heading>>
llmVars == <<api_key, env_key, importable, request_outcome, reply_content,
             client_constructed, requests_issued, llm_result>>
cliVars == <<pdf_files, mode, doc_index, outputs>>
fileVars == <<input_path, out_dir, printed>>
pdfVars == <<fitz, pdfminer, file_path, max_pages, library_calls>>
spanVars == <<start_pos, initial_end>>
sourceVars == <<fileVars, pdfVars, spanVars>>
vars == <<pc, op, sections, returned, text, config, value, confidence,
          matches, covenant_types, raised,
          lines, targets, max_section_lines, results,
          target_name, normalized, text_line, heading,
          api_key, env_key, importable, request_outcome, reply_content,
          client_constructed, requests_issued, llm_result,
          pdf_files, mode, doc_index, outputs,
          input_path, out_dir, printed,
          fitz, pdfminer, file_path, max_pages, library_calls,
          start_pos, initial_end>>

\* ------------------------------------------------------------------ bounds
MaxCands == 3      \* longest candidate list given to the deduplicator
MaxPos == 2        \* largest character position of a candidate
MaxConfLevel == 2  \* number of distinct confidence values of the candidates
MaxTextLen == 4    \* longest section text given to the scorer, in characters
MaxVocab == 5      \* longest keyword / indicator list given to the scorer
MaxMatches == 2    \* most regex matches in one document
MaxLines == 4      \* most lines in a Design A text
MaxWindow == 2     \* largest max_section_lines tried
MaxNameLen == 5    \* longest target name given to normalize_target, in characters
MaxLineWords == 5  \* most words in a line given to is_heading_line
MaxMembers == 2    \* most keys in the JSON object of a model reply
MaxDocs == 3       \* most documents in one batch

\* ------------------------------------------------- CovenantSection records
\* title and content are left out of the record: the deduplicator reads
\* start_pos, end_pos and confidence only.
CovenantSection(type, start, end, conf) ==
    [section_type |-> type, start_pos |-> start, end_pos |-> end, confidence |-> conf]

CovenantTypes == {"restricted_payments", "asset_sales"}

\* ------------------------------------------------------------ list helpers
Min2(a, b) == IF a <= b THEN a ELSE b
Max2(a, b) == IF a >= b THEN a ELSE b

RECURSIVE InsertByStart(_, _)
\* insertion after every element whose key is <= the new key: a stable sort
InsertByStart(sorted, x) ==
    IF sorted = <<>> THEN <<x>>
    ELSE IF Head(sorted).start_pos <= x.start_pos
         THEN <<Head(sorted)>> \o InsertByStart(Tail(sorted), x)
         ELSE <<x>> \o sorted

RECURSIVE SortByStart(_)
\* sections.sort(key=lambda x: x.start_pos): stable, ascending start_pos
SortByStart(list) ==
    IF list = <<>> THEN <<>>
    ELSE InsertByStart(SortByStart(SubSeq(list, 1, Len(list) - 1)), list[Len(list)])

RECURSIVE ListRemove(_, _)
\* list.remove(x): drops the first element equal to x
ListRemove(list, x) ==
    IF list = <<>> THEN <<>>
    ELSE IF Head(list) = x THEN Tail(list)
         ELSE <<Head(list)>> \o ListRemove(Tail(list), x)

\* ------------------------------------------------------------ Deduplicator
\* the overlap test of the inner loop
StartsInside(section, existing) ==
    section.start_pos >= existing.start_pos /\ section.start_pos < existing.end_pos

HigherConfidenceFlipped(section, existing) == section.confidence < existing.confidence

\* the eviction test: the new section replaces the accepted one
HigherConfidence(section, existing) == section.confidence > existing.confidence

RECURSIVE InnerLoop(_, _, _)
\* "for existing in deduplicated": the list iterator is an index j into the
\* list, so a remove() during the loop shifts the later elements one down
\* while j still advances.
InnerLoop(section, deduplicated, j) ==
    IF j > Len(deduplicated)
    THEN [deduplicated |-> deduplicated, overlaps |-> FALSE]
    ELSE LET existing == deduplicated[j] IN
         IF StartsInside(section, existing)
         THEN IF HigherConfidence(section, existing)
              THEN InnerLoop(section, ListRemove(deduplicated, existing), j + 1)
              ELSE [deduplicated |-> deduplicated, overlaps |-> TRUE]
         ELSE InnerLoop(section, deduplicated, j + 1)

AcceptAlways(section, deduplicated) == Append(deduplicated, section)

\* one pass of the outer loop body for one section
Accept(section, deduplicated) ==
    LET r == InnerLoop(section, deduplicated, 1) IN
    IF r.overlaps THEN r.deduplicated ELSE Append(r.deduplicated, section)

RECURSIVE OuterLoop(_, _)
OuterLoop(sorted, deduplicated) ==
    IF sorted = <<>> THEN deduplicated
    ELSE OuterLoop(Tail(sorted), Accept(Head(sorted), deduplicated))

\* the loops without the sort in front of them
deduplicate_unsorted(list) ==
    IF list = <<>> THEN <<>> ELSE OuterLoop(list, <<>>)

\* RegexCovenantExtractor._deduplicate_sections
deduplicate_sections(list) ==
    IF list = <<>> THEN <<>> ELSE OuterLoop(SortByStart(list), <<>>)

\* ------------------------------------------------------- Confidence Scorer
\* Text is a sequence of characters.  The alphabet is the letters a, b, c,
\* the capital A and the line break; str.lower() maps A to a.
Chars == {"a", "b", "c", "A", "\n"}

Lower(ch) == IF ch = "A" THEN "a" ELSE ch

\* str.lower()
LowerStr(str) == [i \in 1..Len(str) |-> Lower(str[i])]

\* phrase in str  (substring test)
Contains(str, phrase) ==
    \E o \in 0..(Len(str) - Len(phrase)) :
        SubSeq(str, o + 1, o + Len(phrase)) = phrase

\* number of positions of str at which phrase occurs
Occurrences(str, phrase) ==
    Cardinality({ o \in 0..(Len(str) - Len(phrase)) :
                    SubSeq(str, o + 1, o + Len(phrase)) = phrase })

HitsByFrequency(phrase, text_lower) == Occurrences(text_lower, LowerStr(phrase))

\* "if keyword.lower() in text_lower: keyword_score += 1": 1 when present
Hits(phrase, text_lower) ==
    IF Contains(text_lower, LowerStr(phrase)) THEN 1 ELSE 0

RECURSIVE CountPresent(_, _)
\* the for loop over config["keywords"] (or config["section_indicators"])
CountPresent(phrases, text_lower) ==
    IF phrases = <<>> THEN 0
    ELSE Hits(Head(phrases), text_lower) + CountPresent(Tail(phrases), text_lower)

\* Floating-point values are integers here: the value v is 4800 * v, plus
\* the number of units in the last place by which the binary64 result
\* differs from the binary64 number nearest to the exact result.  Exact
\* results of the scorer are at least 16 apart for lists of up to 6
\* phrases, so the order of the integers is the order of the doubles.
One == 4800              \* 1.0
KeywordWeight == 2880    \* keyword_weight = 0.6
IndicatorWeightWrong == KeywordWeight
IndicatorWeight == 1920  \* indicator_weight = 0.4
MinConfidence == 1440    \* the 0.3 of "if confidence > 0.3"

\* min(1.0, score / max(1, n)) * weight, exactly
WeightedPart(score, n, weight) ==
    LET d == Max2(1, n) IN (weight * Min2(score, d)) \div d

\* binary64 rounding of  kc * 0.6 + ic * 0.4  for the exact parts ku and iu,
\* in units in the last place relative to the double nearest the exact sum
RoundedDown ==
    { <<480, 0>>, <<480, 1152>>, <<576, 320>>, <<576, 640>>, <<720, 1280>>,
      <<960, 0>>, <<960, 1152>>, <<1152, 480>>, <<1152, 640>>, <<1152, 1280>>,
      <<1728, 320>>, <<1728, 480>>, <<1728, 640>>, <<1920, 0>>, <<1920, 320>>,
      <<1920, 1152>>, <<2160, 0>>, <<2160, 320>>, <<2160, 480>>, <<2160, 640>>,
      <<2160, 960>>, <<2160, 1280>>, <<2304, 960>>, <<2304, 1280>>,
      <<2400, 1280>>, <<2880, 384>> }
RoundedUp ==
    { <<0, 384>>, <<0, 768>>, <<0, 1440>>, <<0, 1536>>, <<0, 1600>>,
      <<480, 1536>>, <<576, 1440>>, <<576, 1536>>, <<576, 1600>>, <<720, 768>>,
      <<720, 1440>>, <<720, 1600>>, <<1440, 1440>>, <<1440, 1536>>,
      <<1920, 1600>>, <<2400, 384>>, <<2400, 1536>> }
RoundedUpTwice == { <<720, 1536>> }

RoundingError(ku, iu) ==
    IF <<ku, iu>> \in RoundedDown THEN -1
    ELSE IF <<ku, iu>> \in RoundedUp THEN 1
    ELSE IF <<ku, iu>> \in RoundedUpTwice THEN 2
    ELSE 0

\* keyword_confidence * keyword_weight + indicator_confidence * indicator_weight
WeightedConfidence(keyword_score, nk, indicator_score, ni) ==
    LET ku == WeightedPart(keyword_score, nk, KeywordWeight)
        iu == WeightedPart(indicator_score, ni, IndicatorWeight)
    IN  ku + iu + RoundingError(ku, iu)

\* RegexCovenantExtractor._calculate_confidence
calculate_confidence(str, cfg) ==
    LET text_lower == LowerStr(str)
        keyword_score == CountPresent(cfg.keywords, text_lower)
        indicator_score == CountPresent(cfg.section_indicators, text_lower)
    IN  WeightedConfidence(keyword_score, Len(cfg.keywords),
                           indicator_score, Len(cfg.section_indicators))

\* Python's two-argument min and max: the first argument unless the second
\* is strictly smaller (larger)
PyMin(a, b) == IF b < a THEN b ELSE a
PyMax(a, b) == IF b > a THEN b ELSE a

validate_confidence_unclamped(v) == v

\* ExtractedCovenant.validate_confidence
validate_confidence(v) == PyMax(0, PyMin(One, v))

\* ------------------------------------------------- Design A: line window
\* A line is a sequence of words (its whitespace-separated tokens, so the
\* line is already stripped); a blank line is the empty sequence.
\* a capitalized word of 114 characters: with "Liens" and a space it makes a
\* line of 120 characters, with "Section" one of 122
LongWord == "Lxxxxxxxxxxxxxxxxxxxxxxxxxxxxxxxxxxxxxxxxxxxxxxxxxxxxxxxxxxxxxxxxxxxxxxxxxxxxxxxxxxxxxxxxxxxxxxxxxxxxxxxxxxxxxxxxx"

Words ==
    {"Section", "4.2", "Liens", "liens", "of", "the", "COVENANTS", "Change", "Control",
     "DEBT", LongWord}

\* str.lower() of a word
LowerWord(w) ==
    CASE w = "Section" -> "section"
      [] w = "Liens" -> "liens"
      [] w = "COVENANTS" -> "covenants"
      [] w = "Change" -> "change"
      [] w = "Control" -> "control"
      [] w = "DEBT" -> "debt"
      [] w = LongWord -> "lxxxxxxxxxxxxxxxxxxxxxxxxxxxxxxxxxxxxxxxxxxxxxxxxxxxxxxxxxxxxxxxxxxxxxxxxxxxxxxxxxxxxxxxxxxxxxxxxxxxxxxxxxxxxxxxxx"
      [] OTHER -> w

LowerWords(ws) == [i \in 1..Len(ws) |-> LowerWord(ws[i])]

\* w[:1].isupper()
FirstIsUpper(w) == w \in {"Section", "Liens", "COVENANTS", "Change", "Control", "DEBT", LongWord}

\* the word starts with a letter: [A-Z] under re.IGNORECASE
FirstIsLetter(w) == w # "4.2"

\* \d+(?:\.\d+)*
IsNumber(w) == w = "4.2"

\* every character of the word is in [A-Z0-9 &/\-_,\.\(\)]
UpperOnly(w) == w \in {"COVENANTS", "4.2", "DEBT"}

\* len(w)
WordLen(w) ==
    CASE w = "Section" -> 7
      [] w = "4.2" -> 3
      [] w \in {"Liens", "liens"} -> 5
      [] w \in {"of"} -> 2
      [] w = "the" -> 3
      [] w = "COVENANTS" -> 9
      [] w = "Change" -> 6
      [] w = "Control" -> 7
      [] w = "DEBT" -> 4
      [] w = LongWord -> 114

RECURSIVE SumLen(_)
SumLen(ws) == IF ws = <<>> THEN 0 ELSE WordLen(Head(ws)) + SumLen(Tail(ws))

\* len(stripped): the words and one space between two words
LineLength(line) == IF line = <<>> THEN 0 ELSE SumLen(line) + Len(line) - 1

MinCapsLength == 8     \* len(stripped) >= 8
MaxTitleLength == 120  \* len(stripped) <= 120

\* SECTION_HEADING_PATTERN.search(line):
\* (?mi)^\s*(?:Section\s+\d+(?:\.\d+)*)\s+[A-Z][^\n]*$
SectionHeading(line) ==
    /\ Len(line) >= 3
    /\ LowerWord(line[1]) = "section"
    /\ IsNumber(line[2])
    /\ FirstIsLetter(line[3])

\* re.fullmatch(r"[A-Z0-9 &/\-_,\.\(\)]+", stripped) and len(stripped) >= 8
AllCapsHeading(line) ==
    /\ LineLength(line) >= MinCapsLength
    /\ \A i \in 1..Len(line) : UpperOnly(line[i])

TitleCaseAtLeast(line) ==
    /\ LineLength(line) <= MaxTitleLength
    /\ LET caps == Cardinality({ i \in 1..Len(line) : FirstIsUpper(line[i]) })
       IN  Len(line) >= 2 /\ 5 * caps >= 3 * Max2(1, Len(line))

\* the title-case heuristic: caps / max(1, len(words)) > 0.6
TitleCaseHeading(line) ==
    /\ LineLength(line) <= MaxTitleLength
    /\ LET caps == Cardinality({ i \in 1..Len(line) : FirstIsUpper(line[i]) })
       IN  Len(line) >= 2 /\ 5 * caps > 3 * Max2(1, Len(line))

\* regex_patterns.is_heading_line
is_heading_line(line) ==
    SectionHeading(line) \/ AllCapsHeading(line) \/ TitleCaseHeading(line)

\* normalize_target, on a name given as its words: lower-cased, joined by
\* single spaces
normalize_target(name) == LowerWords(name)

\* TARGET_SYNONYMS, the entry for "change of control", as lower-case word
\* sequences (the hyphenated spellings are single words outside Words)
TARGET_SYNONYMS(canonical) ==
    IF canonical = <<"change", "of", "control">>
    THEN { <<"change", "of", "control">> }
    ELSE { canonical }

IsPrefix(p, ws) == Len(p) <= Len(ws) /\ SubSeq(ws, 1, Len(p)) = p

\* the compiled pattern of build_target_regexes, searched in one line:
\* (?mi)^(?:\s*Section\s+\d+(?:\.\d+)*)?\s*(?:[:\-\.])?\s*(?:syn1|syn2|...)\b.*$
PatternSearch(canonical, line) ==
    LET lower == LowerWords(line)
        prefixed == Len(line) >= 2 /\ lower[1] = "section" /\ IsNumber(line[2])
    IN  \E syn \in TARGET_SYNONYMS(canonical) :
            \/ IsPrefix(syn, lower)
            \/ prefixed /\ IsPrefix(syn, SubSeq(lower, 3, Len(lower)))

RECURSIVE HeadingsFrom(_, _)
\* _find_heading_indices: the 0-based indices of the heading lines, ascending
HeadingsFrom(ls, index) ==
    IF index >= Len(ls) THEN <<>>
    ELSE (IF is_heading_line(ls[index + 1]) THEN <<index>> ELSE <<>>)
             \o HeadingsFrom(ls, index + 1)

find_heading_indices(ls) == HeadingsFrom(ls, 0)

IsLaterHeadingOrSame(next_heading, start_index) == next_heading >= start_index

\* "if next_heading > start_index"
IsLaterHeading(next_heading, start_index) == next_heading > start_index

EndAtHeading(next_heading) == next_heading

\* "next_heading - 1": the last line before the next heading
EndBeforeHeading(next_heading) == next_heading - 1

RECURSIVE BoundAtNextHeading(_, _, _)
\* "for next_heading in heading_indices: if next_heading > start_index:
\*      end_index = min(end_index, next_heading - 1); break"
BoundAtNextHeading(heading_indices, start_index, end_index) ==
    IF heading_indices = <<>> THEN end_index
    ELSE IF IsLaterHeading(Head(heading_indices), start_index)
         THEN Min2(end_index, EndBeforeHeading(Head(heading_indices)))
         ELSE BoundAtNextHeading(Tail(heading_indices), start_index, end_index)

\* extractor._find_section_bounds: 0-based <<start_index, end_index>>
find_section_bounds(ls, candidate_start_index, heading_indices, window) ==
    LET start_index == candidate_start_index
        end_index == Min2(Len(ls) - 1, start_index + window)
    IN  <<start_index, BoundAtNextHeading(heading_indices, start_index, end_index)>>

\* list[start:stop] with 0 <= start: a negative stop counts from the end
PySlice(list, start, stop) ==
    LET n == Len(list)
        hi == IF stop < 0 THEN Max2(0, stop + n) ELSE Min2(stop, n)
    IN  SubSeq(list, start + 1, hi)

RECURSIVE StripBlankEnd(_)
\* the effect of "\n".join(...).strip() on the trailing lines
StripBlankEnd(ls) ==
    IF ls = <<>> \/ ls[Len(ls)] # <<>> THEN ls
    ELSE StripBlankEnd(SubSeq(ls, 1, Len(ls) - 1))

RECURSIVE StripBlankStart(_)
StripBlankStart(ls) ==
    IF ls = <<>> \/ Head(ls) # <<>> THEN ls ELSE StripBlankStart(Tail(ls))

\* the CovenantSection of Design A
LineSection(canonical, title, start_line, end_line, body) ==
    [target |-> canonical, title |-> title, start_line |-> start_line,
     end_line |-> end_line, text |-> body]

RECURSIVE ScanLines(_, _, _, _, _)
\* "for line_index, line in enumerate(lines)": the sections of one target
ScanLines(canonical, ls, heading_indices, window, line_index) ==
    IF line_index >= Len(ls) THEN <<>>
    ELSE LET line == ls[line_index + 1]
             rest == ScanLines(canonical, ls, heading_indices, window, line_index + 1)
         IN  IF line = <<>> THEN rest
             ELSE IF PatternSearch(canonical, line)
             THEN LET b == find_section_bounds(ls, line_index, heading_indices, window)
                  IN  <<LineSection(canonical, line, b[1] + 1, b[2] + 1,
                            StripBlankStart(StripBlankEnd(PySlice(ls, b[1], b[2] + 1))))>>
                          \o rest
             ELSE rest

extract_matched_targets_only(ls, names, window) ==
    LET heading_indices == find_heading_indices(ls)
        canonicals == { normalize_target(names[i]) : i \in 1..Len(names) }
        matched == { c \in canonicals : ScanLines(c, ls, heading_indices, window, 0) # <<>> }
    IN  [c \in matched |-> ScanLines(c, ls, heading_indices, window, 0)]

\* extractor.extract_covenants_from_text
extract_covenants_from_text(ls, names, window) ==
    LET heading_indices == find_heading_indices(ls)
        canonicals == { normalize_target(names[i]) : i \in 1..Len(names) }
    IN  [c \in canonicals |-> ScanLines(c, ls, heading_indices, window, 0)]

\* ------------------------------------------- normalize_target on characters
\* A target name as the string it is: a sequence of characters drawn from a
\* lower-case letter, a capital, the hyphen, the space and the tab.
NameChars == {"a", "A", "-", " ", "\t"}

\* str.isspace(), which is also what \s matches
IsSpace(ch) == ch \in {" ", "\t", "\n"}

RECURSIVE StripLeft(_)
StripLeft(str) ==
    IF str # <<>> /\ IsSpace(Head(str)) THEN StripLeft(Tail(str)) ELSE str

RECURSIVE StripRight(_)
StripRight(str) ==
    IF str # <<>> /\ IsSpace(str[Len(str)])
    THEN StripRight(SubSeq(str, 1, Len(str) - 1))
    ELSE str

\* str.strip()
Strip(str) == StripRight(StripLeft(str))

\* str.replace(old, new) for single characters
Replace(str, old, new) == [i \in 1..Len(str) |-> IF str[i] = old THEN new ELSE str[i]]

RECURSIVE EachSpaceToBlank(_)
\* re.sub(r"\s", " ", str): every whitespace character becomes a space
EachSpaceToBlank(str) ==
    IF str = <<>> THEN <<>>
    ELSE <<(IF IsSpace(Head(str)) THEN " " ELSE Head(str))>> \o EachSpaceToBlank(Tail(str))

RECURSIVE CollapseSpaces(_)
\* re.sub(r"\s+", " ", str): every run of whitespace becomes one space
CollapseSpaces(str) ==
    IF str = <<>> THEN <<>>
    ELSE IF IsSpace(Head(str))
         THEN <<" ">> \o CollapseSpaces(StripLeft(str))
         ELSE <<Head(str)>> \o CollapseSpaces(Tail(str))

\* regex_patterns.normalize_target on the characters of the name:
\* re.sub(r"\s+", " ", name.strip().lower().replace("-", "-")).strip()
normalize_target_chars(str) ==
    Strip(CollapseSpaces(Replace(LowerStr(Strip(str)), "-", "-")))

\* ------------------------------------------------------------ LLM bridge
\* JSON values, as json.loads returns them
JNull == [type |-> "null"]
JStr(s) == [type |-> "string", str |-> s]
JNum(n) == [type |-> "number", num |-> n]
JArr(items) == [type |-> "array", items |-> items]
\* members: a function from the keys of the object to their values
JObj(members) == [type |-> "object", members |-> members]

\* the empty dict {}: a function with no argument
EmptyMapping == <<>>

\* the message content: None, or a string that is empty, not JSON, or the
\* JSON text of a value
NoContent == [text |-> "none"]
EmptyContent == [text |-> "empty"]
InvalidContent == [text |-> "invalid"]
JsonContent(v) == [text |-> "json", json |-> v]

\* bool(v) of a JSON value
Truthy(v) ==
    CASE v.type = "null" -> FALSE
      [] v.type = "string" -> v.str # ""
      [] v.type = "number" -> v.num # 0
      [] v.type = "array" -> v.items # <<>>
      [] v.type = "object" -> DOMAIN v.members # {}

\* dict.get(key, default)
DictGet(d, key, default) == IF key \in DOMAIN d THEN d[key] ELSE default

\* "api_key = api_key or os.getenv("OPENAI_API_KEY")"
Credential(arg, env) == IF arg # "" THEN arg ELSE env

HasCredentialAlways(key) == TRUE

\* "if not api_key: return {}" is not taken
HasCredential(key) == key # ""

\* "content = completion.choices[0].message.content or "{}"" and
\* json.loads(content): the value, or the JSONDecodeError raised
LoadJson(c) ==
    CASE c.text \in {"none", "empty"} -> [raised |-> "none", data |-> JObj(EmptyMapping)]
      [] c.text = "invalid" -> [raised |-> "JSONDecodeError", data |-> JNull]
      [] c.text = "json" -> [raised |-> "none", data |-> c.json]

\* the dict stored for target t: "v = data.get(t) or {}", then the three
\* v.get(..., "") when v is a dict and "" otherwise
EntryOf(data, t) ==
    LET got == DictGet(data.members, t, JNull)
        v == IF Truthy(got) THEN got ELSE JObj(EmptyMapping)
        field(k) == IF v.type = "object" THEN DictGet(v.members, k, JStr("")) ELSE JStr("")
    IN  [title |-> field("title"), excerpt |-> field("excerpt"),
         rationale |-> field("rationale")]

BuildPresentOnly(data, canonical_targets) ==
    [t \in { canonical_targets[i] : i \in 1..Len(canonical_targets) } \cap DOMAIN data.members
        |-> EntryOf(data, t)]

\* "for t in canonical_targets: ... result[t] = {...}"
BuildResult(data, canonical_targets) ==
    [t \in { canonical_targets[i] : i \in 1..Len(canonical_targets) } |-> EntryOf(data, t)]

PropagateException(exc) == [raised |-> exc, result |-> EmptyMapping]

\* "except Exception: return {}"
ExceptException(exc) == [raised |-> "none", result |-> EmptyMapping]

\* the try block: json.loads, then the loop; data.get raises AttributeError
\* in the first iteration when data is not a dict
ParseReply(c, canonical_targets) ==
    LET loaded == LoadJson(c)
    IN  IF loaded.raised # "none" THEN ExceptException(loaded.raised)
        ELSE IF canonical_targets # <<>> /\ loaded.data.type # "object"
        THEN ExceptException("AttributeError")
        ELSE IF canonical_targets = <<>>
        THEN [raised |-> "none", result |-> EmptyMapping]
        ELSE [raised |-> "none", result |-> BuildResult(loaded.data, canonical_targets)]

\* extractor.llm_extract_covenants: what it returns or raises, whether the
\* client was constructed and how many requests were sent
llm_extract_covenants(names, arg, env, can_import, outcome, c) ==
    LET early == [raised |-> "none", result |-> EmptyMapping,
                  client |-> FALSE, requests |-> 0]
        canonical_targets == [i \in 1..Len(names) |-> normalize_target(names[i])]
    IN  IF ~HasCredential(Credential(arg, env)) THEN early
        ELSE IF ~can_import THEN early
        ELSE IF outcome = "error"
        THEN [raised |-> "APIError", result |-> EmptyMapping,
              client |-> TRUE, requests |-> 1]
        ELSE LET parsed == ParseReply(c, canonical_targets)
             IN  [raised |-> parsed.raised, result |-> parsed.result,
                  client |-> TRUE, requests |-> 1]

\* ------------------------------------------------------ batch processing
\* A document of the batch: whether its text can be extracted ("ok", an
\* "unreadable" file that the PDF library rejects, or a "missing" path) and
\* what the model integration does for it ("ok", a request "error", or an
\* "unparsable" reply).
Document(text_state, llm_state) == [text |-> text_state, llm |-> llm_state]

\* pdf_utils.extract_text_from_pdf: the exception it raises, or "none"
extract_text_from_pdf(doc) ==
    CASE doc.text = "missing" -> "FileNotFoundError"
      [] doc.text = "unreadable" -> "RuntimeError"
      [] OTHER -> "none"

\* the request outcome and the reply content the document leads to
RequestOf(doc) == IF doc.llm = "error" THEN "error" ELSE "ok"
ContentOf(doc) == IF doc.llm = "unparsable" THEN InvalidContent ELSE EmptyContent

\* one output of the batch: the document it belongs to and the result keys
Output(k, keys, ok) == [doc |-> k, keys |-> keys, success |-> ok]

\* the body of the for loop of cli.main for one document: the exception
\* that leaves the loop, or "none" and the keys of the JSON file written
CliLoopBody(doc, mode_arg, names, env) ==
    LET regex_on == mode_arg \in {"regex", "both"}
        llm_on == mode_arg \in {"llm", "both"}
        read == extract_text_from_pdf(doc)
        llm == llm_extract_covenants(names, "", env, TRUE, RequestOf(doc), ContentOf(doc))
        keys == {"file", "targets"}
                    \cup (IF regex_on THEN {"regex"} ELSE {})
                    \cup (IF llm_on THEN {"llm"} ELSE {})
    IN  IF read # "none" THEN [raised |-> read, keys |-> {}]
        ELSE IF llm_on /\ llm.raised # "none" THEN [raised |-> llm.raised, keys |-> {}]
        ELSE [raised |-> "none", keys |-> keys]

\* PDFExtractor.extract_text(pdf_path, "best"): FileNotFoundError for a
\* missing path; otherwise the dictionary, with success False when both
\* libraries fail on the file
PdfExtractText(doc) ==
    IF doc.text = "missing" THEN [raised |-> "FileNotFoundError", success |-> FALSE]
    ELSE [raised |-> "none", success |-> doc.text = "ok"]

\* main.compare_extraction_methods and the saving of its results: the
\* exception raised, or "none" and the keys saved ({} when nothing is saved).
\* The LLM call sits in try / except Exception.
CompareAndSave(doc, mode_arg, env) ==
    LET read == PdfExtractText(doc)
        llm_found == mode_arg = "both" /\ env # "" /\ doc.llm = "ok"
    IN  IF read.raised # "none" THEN [raised |-> read.raised, keys |-> {}]
        ELSE IF ~read.success THEN [raised |-> "none", keys |-> {}]
        ELSE [raised |-> "none",
              keys |-> {"regex"} \cup (IF llm_found THEN {"llm"} ELSE {})]

\* Keyword and indicator phrases: distinct, lower-case, without line breaks,
\* as in the covenant_patterns table.
KeywordPool == << <<"a">>, <<"b">>, <<"a", "b">>, <<"b", "a">>, <<"a", "a">>, <<"b", "b">> >>
IndicatorPool == << <<"c">>, <<"c", "c">>, <<"c", "c", "c">>, <<"a", "c">>, <<"c", "a">>, <<"b", "c">> >>

Config(nk, ni) ==
    [keywords |-> SubSeq(KeywordPool, 1, nk),
     section_indicators |-> SubSeq(IndicatorPool, 1, ni)]

\* the values of the variables an operation does not use
ScoreIdle ==
    /\ text = <<>>
    /\ config = Config(0, 0)
    /\ value = 0
    /\ confidence = 0

DesignBIdle ==
    /\ matches = <<>>
    /\ covenant_types = <<>>
    /\ raised = "none"

DesignAIdle ==
    /\ lines = <<>>
    /\ targets = <<>>
    /\ max_section_lines = 0
    /\ results = <<>>

PatternIdle ==
    /\ target_name = <<>>
    /\ normalized = <<>>
    /\ text_line = <<>>
    /\ heading = FALSE

LlmIdle ==
    /\ api_key = ""
    /\ env_key = ""
    /\ importable = FALSE
    /\ request_outcome = "ok"
    /\ reply_content = <<>>
    /\ client_constructed = FALSE
    /\ requests_issued = 0
    /\ llm_result = <<>>

CliIdle ==
    /\ pdf_files = <<>>
    /\ mode = "regex"
    /\ doc_index = 0
    /\ outputs = <<>>

FileIdle ==
    /\ input_path = <<>>
    /\ out_dir = {}
    /\ printed = <<>>

PdfIdle ==
    /\ fitz = "None"
    /\ pdfminer = FALSE
    /\ file_path = <<>>
    /\ max_pages = <<>>
    /\ library_calls = <<>>

SpanIdle ==
    /\ start_pos = 0
    /\ initial_end = 0

SourceIdle == FileIdle /\ PdfIdle /\ SpanIdle

\* ------------------------------------------ specification: Confidence Scorer
ScorerConfigs == { Config(nk, ni) : nk \in 0..MaxVocab, ni \in 0..MaxVocab }

Texts == UNION { [1..n -> Chars] : n \in 0..MaxTextLen }

\* confidences a model reply may carry: below 0, inside and above [0, 1]
ModelValues == { -One, -1, 0, 1, MinConfidence, One - 1, One, One + 1, One + One }

InitScore ==
    /\ pc = "call"
    /\ \/ /\ op = "_calculate_confidence"
          /\ text \in Texts
          /\ config \in ScorerConfigs
          /\ value = 0
       \/ /\ op = "validate_confidence"
          /\ text = <<>>
          /\ config = Config(0, 0)
          /\ value \in ModelValues
    /\ confidence = 0
    /\ sections = <<>>
    /\ returned = <<>>
    /\ DesignBIdle
    /\ DesignAIdle
    /\ PatternIdle
    /\ LlmIdle
    /\ CliIdle
    /\ SourceIdle

CalculateConfidence ==
    /\ pc = "call"
    /\ op = "_calculate_confidence"
    /\ confidence' = calculate_confidence(text, config)
    /\ pc' = "return"
    /\ UNCHANGED <<op, sourceVars, dedupVars, text, config, value, designBVars, designAVars,
                 patternVars, llmVars, cliVars>>

ValidateConfidence ==
    /\ pc = "call"
    /\ op = "validate_confidence"
    /\ confidence' = validate_confidence(value)
    /\ pc' = "return"
    /\ UNCHANGED <<op, sourceVars, dedupVars, text, config, value, designBVars, designAVars,
                 patternVars, llmVars, cliVars>>

NextScore == CalculateConfidence \/ ValidateConfidence

SpecScore == InitScore /\ [][NextScore]_vars

\* --------------------------------------------- specification: Deduplicator
\* Every candidate with 0 <= start_pos <= end_pos <= MaxPos and one of
\* MaxConfLevel confidence values.
\* The deduplicator never reads section_type, so one type is enough here.
Candidates ==
    { CovenantSection("restricted_payments", s, e, c) :
        s \in 0..MaxPos, e \in 0..MaxPos, c \in 1..MaxConfLevel }

ValidCandidates == { c \in Candidates : c.end_pos >= c.start_pos }

CandidateLists == UNION { [1..n -> ValidCandidates] : n \in 0..MaxCands }

InitDedup ==
    /\ pc = "call"
    /\ op = "_deduplicate_sections"
    /\ sections \in CandidateLists
    /\ returned = <<>>
    /\ ScoreIdle
    /\ SourceIdle
    /\ DesignBIdle
    /\ DesignAIdle
    /\ PatternIdle
    /\ LlmIdle
    /\ CliIdle

Deduplicate ==
    /\ pc = "call"
    /\ op = "_deduplicate_sections"
    /\ returned' = deduplicate_sections(sections)
    /\ pc' = "return"
    /\ UNCHANGED <<op, sourceVars, sections, scoreVars, designBVars, designAVars,
                 patternVars, llmVars, cliVars>>

NextDedup == Deduplicate

SpecDedup == InitDedup /\ [][NextDedup]_vars

\* ------------------------------------------------- Design B: the extractor
\* covenant_patterns, two of its types: the keyword and indicator lists have
\* the lengths of the table (restricted_payments 4 and 5, asset_sales 4 and
\* 4); the phrases are abbreviated to letters.
TypeOrder == <<"restricted_payments", "asset_sales">>

covenant_patterns ==
    [t \in CovenantTypes |->
        IF t = "restricted_payments" THEN Config(4, 5) ELSE Config(4, 4)]

\* A match of one of a type's patterns: where it starts and the section
\* content _extract_full_section returns for it (already stripped).
Match(type, start, content) ==
    [covenant_type |-> type, start |-> start, content |-> content]

PassesFloorAlways(conf) == TRUE

\* "if confidence > 0.3"
PassesFloor(conf) == conf > MinConfidence

\* the CovenantSection built for a match
SectionOf(m) ==
    CovenantSection(m.covenant_type, m.start, m.start + Len(m.content),
                    calculate_confidence(m.content, covenant_patterns[m.covenant_type]))

RECURSIVE CollectSections(_, _)
\* the loops over the patterns of one type and over their matches: the
\* matches of that type, in the order found, that pass the floor
CollectSections(ms, type) ==
    IF ms = <<>> THEN <<>>
    ELSE LET m == Head(ms)
             rest == CollectSections(Tail(ms), type)
         IN  IF m.covenant_type = type /\ PassesFloor(SectionOf(m).confidence)
             THEN <<SectionOf(m)>> \o rest
             ELSE rest

RECURSIVE CollectAll(_, _)
\* "for covenant_type, config in self.covenant_patterns.items()"
CollectAll(ms, types) ==
    IF types = <<>> THEN <<>>
    ELSE CollectSections(ms, Head(types)) \o CollectAll(ms, Tail(types))

\* RegexCovenantExtractor.extract_sections
extract_sections(ms) == deduplicate_sections(CollectAll(ms, TypeOrder))

\* RegexCovenantExtractor.extract_by_type, for a type of the table
extract_by_type(ms, type) == deduplicate_sections(CollectSections(ms, type))

RECURSIVE ExtendByType(_, _)
\* "for covenant_type in covenant_types: sections.extend(extract_by_type(...))"
ExtendByType(ms, types) ==
    IF types = <<>> THEN <<>>
    ELSE extract_by_type(ms, Head(types)) \o ExtendByType(ms, Tail(types))

UnknownType(types) == \E i \in 1..Len(types) : types[i] \notin CovenantTypes

\* ---------------------------------------------- specification: Design B
\* Section contents: empty; 2 of 4 keywords and no indicator; 3 keywords;
\* three indicators and no keyword; keywords and indicators.
SampleContents ==
    { <<>>, <<"a", "\n", "b">>, <<"A", "b">>, <<"c", "c", "c">>, <<"b", "a", "c">> }

Matches ==
    { Match(t, s, c) : t \in CovenantTypes, s \in 0..MaxPos, c \in SampleContents }

MatchLists == UNION { [1..n -> Matches] : n \in 0..MaxMatches }

InitDesignB ==
    /\ pc = "call"
    /\ matches \in MatchLists
    /\ \/ /\ op = "extract_sections"
          /\ covenant_types = <<>>
       \/ /\ op = "extract_by_type"
          /\ covenant_types \in { <<"restricted_payments">>, <<"asset_sales">>, <<"dividends">> }
       \/ /\ op = "extract_covenants_regex"
          /\ covenant_types \in
                { <<>>, <<"restricted_payments", "asset_sales">>, <<"asset_sales", "dividends">> }
    /\ raised = "none"
    /\ sections = <<>>
    /\ returned = <<>>
    /\ ScoreIdle
    /\ SourceIdle
    /\ DesignAIdle
    /\ PatternIdle
    /\ LlmIdle
    /\ CliIdle

\* extract_sections(text).  sections is the list collected before the
\* deduplication, so returned is extract_sections(matches) (and, below,
\* extract_by_type(matches, type)), computed from the list just collected.
ExtractSections ==
    /\ pc = "call"
    /\ op = "extract_sections"
    /\ sections' = CollectAll(matches, TypeOrder)
    /\ returned' = deduplicate_sections(sections')
    /\ pc' = "return"
    /\ UNCHANGED <<op, sourceVars, scoreVars, designBVars, designAVars,
                 patternVars, llmVars, cliVars>>

\* extract_by_type(text, covenant_type)
ExtractByType ==
    /\ pc = "call"
    /\ op = "extract_by_type"
    /\ IF UnknownType(covenant_types)
       THEN /\ raised' = "ValueError"
            /\ UNCHANGED <<sections, returned>>
       ELSE /\ sections' = CollectSections(matches, covenant_types[1])
            /\ returned' = deduplicate_sections(sections')
            /\ UNCHANGED raised
    /\ pc' = "return"
    /\ UNCHANGED <<op, sourceVars, scoreVars, matches, covenant_types, designAVars,
                 patternVars, llmVars, cliVars>>

\* extract_covenants_regex(text, covenant_types)
ExtractCovenantsRegex ==
    /\ pc = "call"
    /\ op = "extract_covenants_regex"
    /\ IF covenant_types = <<>>
       THEN /\ sections' = CollectAll(matches, TypeOrder)
            /\ returned' = extract_sections(matches)
            /\ UNCHANGED raised
       ELSE IF UnknownType(covenant_types)
       THEN /\ raised' = "ValueError"
            /\ UNCHANGED <<sections, returned>>
       ELSE /\ sections' = CollectAll(matches, covenant_types)
            /\ returned' = ExtendByType(matches, covenant_types)
            /\ UNCHANGED raised
    /\ pc' = "return"
    /\ UNCHANGED <<op, sourceVars, scoreVars, matches, covenant_types, designAVars,
                 patternVars, llmVars, cliVars>>

NextDesignB == ExtractSections \/ ExtractByType \/ ExtractCovenantsRegex

SpecDesignB == InitDesignB /\ [][NextDesignB]_vars

\* ---------------------------------------------- specification: Design A
\* Sample lines: blank; a Section heading naming the target; a body line
\* starting with the target; a body line; an all-caps heading; a Section
\* reference in running text; a title-case heading naming the other target.
SampleLines ==
    { <<>>,
      <<"Section", "4.2", "Liens">>,
      <<"liens", "of", "the">>,
      <<"of", "the", "liens">>,
      <<"COVENANTS">>,
      <<"Section", "4.2", "of", "the">>,
      <<"Change", "of", "Control">> }

LineTexts == UNION { [1..n -> SampleLines] : n \in 0..MaxLines }

TargetLists == { << <<"Liens">> >>, << <<"liens">>, <<"Change", "of", "Control">> >> }

InitDesignA ==
    /\ pc = "call"
    /\ op = "extract_covenants_from_text"
    /\ lines \in LineTexts
    /\ targets \in TargetLists
    /\ max_section_lines \in (-2)..MaxWindow
    /\ results = <<>>
    /\ sections = <<>>
    /\ returned = <<>>
    /\ ScoreIdle
    /\ SourceIdle
    /\ DesignBIdle
    /\ PatternIdle
    /\ LlmIdle
    /\ CliIdle

\* extract_covenants_from_text(text, targets, max_section_lines)
ExtractCovenantsFromText ==
    /\ pc = "call"
    /\ op = "extract_covenants_from_text"
    /\ results' = extract_covenants_from_text(lines, targets, max_section_lines)
    /\ pc' = "return"
    /\ UNCHANGED <<op, sourceVars, dedupVars, scoreVars, designBVars, lines, targets, max_section_lines,
                 patternVars, llmVars, cliVars>>

NextDesignA == ExtractCovenantsFromText

SpecDesignA == InitDesignA /\ [][NextDesignA]_vars

\* ------------------------------- specification: both extractors, one call
\* Design A on every text; Design B on the documents in which the patterns
\* find no match or one match
InitExtract == InitDesignA \/ (InitDesignB /\ Len(matches) <= 1)

NextExtract == NextDesignA \/ NextDesignB

SpecExtract == InitExtract /\ [][NextExtract]_vars

\* ------------------------------ specification: regex_patterns functions
Names == UNION { [1..n -> NameChars] : n \in 0..MaxNameLen }

\* words of the lines classified: the enumerator words, a lower-case word, a
\* capitalized word, an all-caps word and the long word
HeadingWords == {"Section", "4.2", "of", "Liens", "DEBT", LongWord}

HeadingLines == UNION { [1..n -> HeadingWords] : n \in 0..MaxLineWords }

InitPatterns ==
    /\ pc = "call"
    /\ \/ /\ op = "normalize_target"
          /\ target_name \in Names
          /\ text_line = <<>>
       \/ /\ op = "is_heading_line"
          /\ target_name = <<>>
          /\ text_line \in HeadingLines
    /\ normalized = <<>>
    /\ heading = FALSE
    /\ sections = <<>>
    /\ returned = <<>>
    /\ ScoreIdle
    /\ SourceIdle
    /\ DesignBIdle
    /\ DesignAIdle
    /\ LlmIdle
    /\ CliIdle

\* normalize_target(name)
NormalizeTarget ==
    /\ pc = "call"
    /\ op = "normalize_target"
    /\ normalized' = normalize_target_chars(target_name)
    /\ pc' = "return"
    /\ UNCHANGED <<op, sourceVars, dedupVars, scoreVars, designBVars, designAVars,
                   target_name, text_line, heading, llmVars, cliVars>>

\* is_heading_line(line)
IsHeadingLine ==
    /\ pc = "call"
    /\ op = "is_heading_line"
    /\ heading' = is_heading_line(text_line)
    /\ pc' = "return"
    /\ UNCHANGED <<op, sourceVars, dedupVars, scoreVars, designBVars, designAVars,
                   target_name, text_line, normalized, llmVars, cliVars>>

NextPatterns == NormalizeTarget \/ IsHeadingLine

SpecPatterns == InitPatterns /\ [][NextPatterns]_vars

\* ------------------------------------------ specification: LLM bridge
\* keys a reply object may hold: the two canonical targets and another key
ReplyKeys == { <<"liens">>, <<"change", "of", "control">>, <<"other">> }

\* values a reply may give for a key
ReplyValues ==
    { JNull, JStr(""), JStr("x"), JNum(0), JNum(1), JArr(<<>>), JArr(<<JNum(1)>>),
      JObj(EmptyMapping),
      JObj([k \in {"title"} |-> JStr("T")]),
      JObj([k \in {"title", "excerpt", "rationale"} |-> JStr("T")]) }

ReplyObjects ==
    UNION { [D -> ReplyValues] : D \in { K \in SUBSET ReplyKeys : Cardinality(K) <= MaxMembers } }

Replies ==
    { NoContent, EmptyContent, InvalidContent,
      JsonContent(JNull), JsonContent(JStr("x")), JsonContent(JNum(1)),
      JsonContent(JArr(<<>>)) }
        \cup { JsonContent(JObj(m)) : m \in ReplyObjects }

LlmTargetLists == TargetLists \cup { <<>>, << <<"Liens">>, <<"liens">> >> }

InitLlm ==
    /\ pc = "call"
    /\ op = "llm_extract_covenants"
    /\ targets \in LlmTargetLists
    /\ api_key \in {"", "sk-arg"}
    /\ env_key \in {"", "sk-env"}
    /\ importable \in BOOLEAN
    /\ request_outcome \in {"ok", "error"}
    /\ reply_content \in Replies
    /\ client_constructed = FALSE
    /\ requests_issued = 0
    /\ llm_result = EmptyMapping
    /\ raised = "none"
    /\ matches = <<>>
    /\ covenant_types = <<>>
    /\ lines = <<>>
    /\ max_section_lines = 0
    /\ results = <<>>
    /\ sections = <<>>
    /\ returned = <<>>
    /\ ScoreIdle
    /\ SourceIdle
    /\ PatternIdle
    /\ CliIdle

\* llm_extract_covenants(text, targets, model, api_key)
LlmExtractCovenants ==
    /\ pc = "call"
    /\ op = "llm_extract_covenants"
    /\ LET r == llm_extract_covenants(targets, api_key, env_key, importable,
                                      request_outcome, reply_content)
       IN  /\ llm_result' = r.result
           /\ raised' = r.raised
           /\ client_constructed' = r.client
           /\ requests_issued' = r.requests
    /\ pc' = "return"
    /\ UNCHANGED <<op, sourceVars, dedupVars, scoreVars, matches, covenant_types, designAVars,
                   patternVars, api_key, env_key, importable, request_outcome,
                   reply_content, cliVars>>

NextLlm == LlmExtractCovenants

SpecLlm == InitLlm /\ [][NextLlm]_vars

\* -------------------------------------- specification: batch processing
DocumentKinds ==
    { Document("ok", "ok"), Document("unreadable", "ok"), Document("missing", "ok"),
      Document("ok", "error"), Document("ok", "unparsable") }

DocumentLists == UNION { [1..n -> DocumentKinds] : n \in 0..MaxDocs }

\* main takes its documents from glob or from a path click has checked
ExistingOnly(docs) == \A i \in 1..Len(docs) : docs[i].text # "missing"

InitBatch ==
    /\ pc = "call"
    /\ pdf_files \in DocumentLists
    /\ \/ /\ op = "cli.main"
          /\ mode \in {"regex", "llm", "both"}
          /\ env_key \in {"", "sk-env"}
       \/ /\ op = "main"
          /\ mode \in {"regex", "both"}
          /\ env_key \in {"", "sk-env"}
          /\ ExistingOnly(pdf_files)
       \/ /\ op = "extract_pdf_batch"
          /\ mode = "regex"
          /\ env_key = ""
    /\ doc_index = 0
    /\ outputs = <<>>
    /\ targets = << <<"Liens">> >>
    /\ raised = "none"
    /\ api_key = ""
    /\ importable = TRUE
    /\ request_outcome = "ok"
    /\ reply_content = <<>>
    /\ client_constructed = FALSE
    /\ requests_issued = 0
    /\ llm_result = <<>>
    /\ matches = <<>>
    /\ covenant_types = <<>>
    /\ lines = <<>>
    /\ max_section_lines = 0
    /\ results = <<>>
    /\ sections = <<>>
    /\ returned = <<>>
    /\ ScoreIdle
    /\ SourceIdle
    /\ PatternIdle

batchFixed == <<op, sourceVars, dedupVars, scoreVars, matches, covenant_types, designAVars,
                patternVars, llmVars, pdf_files, mode>>

\* one iteration of "for pdf_path in tqdm(pdf_files, ...)" in cli.main
CliMainIteration ==
    /\ pc = "call"
    /\ op = "cli.main"
    /\ doc_index < Len(pdf_files)
    /\ LET r == CliLoopBody(pdf_files[doc_index + 1], mode, targets, env_key)
       IN  IF r.raised # "none"
           THEN /\ raised' = r.raised
                /\ pc' = "raised"
                /\ UNCHANGED <<doc_index, outputs>>
           ELSE /\ outputs' = Append(outputs, Output(doc_index + 1, r.keys, TRUE))
                /\ doc_index' = doc_index + 1
                /\ UNCHANGED <<pc, raised>>
    /\ UNCHANGED batchFixed

\* one iteration of "for pdf_path in pdf_files" in covenant-extraction main
MainIteration ==
    /\ pc = "call"
    /\ op = "main"
    /\ doc_index < Len(pdf_files)
    /\ LET r == CompareAndSave(pdf_files[doc_index + 1], mode, env_key)
       IN  IF r.raised # "none"
           THEN /\ raised' = r.raised
                /\ pc' = "raised"
                /\ UNCHANGED <<doc_index, outputs>>
           ELSE /\ outputs' = IF r.keys = {} THEN outputs
                              ELSE Append(outputs, Output(doc_index + 1, r.keys, TRUE))
                /\ doc_index' = doc_index + 1
                /\ UNCHANGED <<pc, raised>>
    /\ UNCHANGED batchFixed

\* one iteration of "for pdf_path in pdf_paths" in extract_pdf_batch: the
\* try / except stores an entry for the document either way
BatchIteration ==
    /\ pc = "call"
    /\ op = "extract_pdf_batch"
    /\ doc_index < Len(pdf_files)
    /\ LET r == PdfExtractText(pdf_files[doc_index + 1])
           keys == IF r.raised # "none" THEN {"text", "error"} ELSE {"text"}
       IN  outputs' = Append(outputs, Output(doc_index + 1, keys, r.success))
    /\ doc_index' = doc_index + 1
    /\ UNCHANGED <<pc, raised>>
    /\ UNCHANGED batchFixed

\* the loop is over (or there was no document): the entry point returns
BatchReturn ==
    /\ pc = "call"
    /\ op \in {"cli.main", "main", "extract_pdf_batch"}
    /\ doc_index = Len(pdf_files)
    /\ pc' = "return"
    /\ UNCHANGED <<raised, doc_index, outputs>>
    /\ UNCHANGED batchFixed

NextBatch == CliMainIteration \/ MainIteration \/ BatchIteration \/ BatchReturn

SpecBatch == InitBatch /\ [][NextBatch]_vars

\* ------------------------------------------------------- claims C1 and C2
\* the half-open ranges [start_pos, end_pos) of a and b share a position
RangesOverlap(a, b) ==
    Max2(a.start_pos, b.start_pos) < Min2(a.end_pos, b.end_pos)

\* a and b were (or would be) compared by the inner loop: one starts inside the other
Competes(a, b) == StartsInside(a, b) \/ StartsInside(b, a)

Count(list, x) == Cardinality({ i \in 1..Len(list) : list[i] = x })

\* the candidate x of `sections` is not (or not as often) in `returned`
Absent(x) == Count(returned, x) < Count(sections, x)

DedupReturned == pc = "return" /\ op = "_deduplicate_sections"

\* C1: no two members of the list returned by _deduplicate_sections have
\* overlapping [start_pos, end_pos) ranges.
C1_NoOverlapInResult ==
    DedupReturned =>
        \A i, j \in 1..Len(returned) :
            i < j => ~RangesOverlap(returned[i], returned[j])

\* C1 witness: overlapping candidates went in, one of them was dropped and
\* two sections came out.
C1_Witness ==
    /\ DedupReturned
    /\ Len(returned) >= 2
    /\ \E i, j \in 1..Len(sections) :
           /\ i < j
           /\ RangesOverlap(sections[i], sections[j])
           /\ Absent(sections[i]) \/ Absent(sections[j])

\* C2 as stated: every retained section that overlaps the range of an absent
\* candidate has confidence >= the absent candidate's confidence.
C2_Original ==
    DedupReturned =>
        \A i \in 1..Len(sections) : \A k \in 1..Len(returned) :
            (Absent(sections[i]) /\ RangesOverlap(returned[k], sections[i]))
                => returned[k].confidence >= sections[i].confidence

\* C2 amended: every absent candidate lost to an input candidate it was
\* compared with (one starts inside the other's range) whose confidence is
\* at least its own.
C2_AbsentLostToCompetitor ==
    DedupReturned =>
        \A i \in 1..Len(sections) :
            Absent(sections[i]) =>
                \E j \in 1..Len(sections) :
                    /\ j # i
                    /\ Competes(sections[j], sections[i])
                    /\ sections[j].confidence >= sections[i].confidence

\* C2 witness: a candidate was evicted by a later, more confident one.
C2_Witness ==
    /\ DedupReturned
    /\ \E i \in 1..Len(sections) : \E k \in 1..Len(returned) :
           /\ Absent(sections[i])
           /\ StartsInside(returned[k], sections[i])
           /\ returned[k].start_pos > sections[i].start_pos
           /\ returned[k].confidence > sections[i].confidence

\* ------------------------------------------------------- claims C4 and C5
ScoreReturned == pc = "return" /\ op = "_calculate_confidence"

\* C4: the confidence returned by _calculate_confidence, for every text and
\* every keyword / indicator list length (0 included), and the confidence
\* kept by ExtractedCovenant.validate_confidence, lie in [0, 1].
C4_ConfidenceInUnitInterval ==
    (pc = "return" /\ op \in {"_calculate_confidence", "validate_confidence"})
        => (confidence >= 0 /\ confidence <= One)

\* C4 witness: a score computed with an empty keyword list and an indicator found.
C4_Witness ==
    /\ ScoreReturned
    /\ config.keywords = <<>>
    /\ config.section_indicators # <<>>
    /\ confidence > 0

\* the distinct phrases of a list that occur in the lower-cased text
PhrasesPresent(phrases, str) ==
    { phrases[j] : j \in { k \in 1..Len(phrases) : Contains(LowerStr(str), phrases[k]) } }

Reverse(list) == [i \in 1..Len(list) |-> list[Len(list) + 1 - i]]

ReversedConfig(cfg) ==
    [keywords |-> Reverse(cfg.keywords),
     section_indicators |-> Reverse(cfg.section_indicators)]

AllPhrases(cfg) ==
    { cfg.keywords[j] : j \in 1..Len(cfg.keywords) }
        \cup { cfg.section_indicators[j] : j \in 1..Len(cfg.section_indicators) }

DesignBOps == {"extract_sections", "extract_by_type", "extract_covenants_regex"}

DesignBReturned == pc = "return" /\ op \in DesignBOps /\ raised = "none"

OfType(list, type) == SelectSeq(list, LAMBDA x : x.section_type = type)

\* C3 as stated: candidates of different types never eliminate one another,
\* so the sections of a type that extract_sections and extract_by_type return
\* are those the Deduplicator keeps of that type's candidates alone.
C3_Original ==
    (pc = "return" /\ op \in {"extract_sections", "extract_by_type"} /\ raised = "none")
        => \A t \in CovenantTypes :
               OfType(returned, t) = deduplicate_sections(OfType(sections, t))

\* C6: every section Design B returns has confidence not below the 0.3
\* floor, and a candidate below the floor raises nothing: the only exception
\* is the ValueError for a covenant type that is not in the table.
C6_ReturnedAboveFloor ==
    (pc = "return" /\ op \in DesignBOps) =>
        /\ \A k \in 1..Len(returned) : returned[k].confidence >= MinConfidence
        /\ raised # "none" => UnknownType(covenant_types)

\* C6 witness: a match below the floor was dropped and another match returned.
C6_Witness ==
    /\ DesignBReturned
    /\ Len(returned) >= 1
    /\ \E i \in 1..Len(matches) :
           /\ SectionOf(matches[i]).confidence < MinConfidence
           /\ SectionOf(matches[i]).confidence > 0
           /\ covenant_types # <<>> =>
                  \E j \in 1..Len(covenant_types) :
                      covenant_types[j] = matches[i].covenant_type

\* C7 as stated: a match whose confidence is at least 0.3 passes the floor
\* and is handed to the Deduplicator.
C7_Original ==
    (pc = "return" /\ op = "extract_sections") =>
        \A i \in 1..Len(matches) :
            SectionOf(matches[i]).confidence >= MinConfidence
                => \E k \in 1..Len(sections) : sections[k] = SectionOf(matches[i])

\* --------------------------------------------- claims C8, C9 and C10
DesignAReturned == pc = "return" /\ op = "extract_covenants_from_text"

\* 0-based indices of the heading lines of the text
HeadingSet == { i \in 0..(Len(lines) - 1) : is_heading_line(lines[i + 1]) }

LaterHeadings(s) == { h \in HeadingSet : h > s }

SetMin(S) == CHOOSE x \in S : \A y \in S : x <= y

\* 0-based indices of the non-blank lines the pattern of target c matches
MatchIndices(c) ==
    { i \in 0..(Len(lines) - 1) : lines[i + 1] # <<>> /\ PatternSearch(c, lines[i + 1]) }

\* min(h - 1, s + max_section_lines, last line index), h the first heading after s
ExpectedEnd(s) ==
    LET w == Min2(Len(lines) - 1, s + max_section_lines)
    IN  IF LaterHeadings(s) = {} THEN w ELSE Min2(w, SetMin(LaterHeadings(s)) - 1)

SectionsOf(c) == { results[c][k] : k \in 1..Len(results[c]) }

\* C8: for a match at 0-based line s the section starts at s and ends at
\* min(h - 1, s + max_section_lines), h the smallest heading index greater
\* than s (no such term when there is none), bounded by the last line index.
C8_SectionBounds ==
    DesignAReturned =>
        \A c \in DOMAIN results :
            /\ Len(results[c]) = Cardinality(MatchIndices(c))
            /\ \A s \in MatchIndices(c) :
                   \E sec \in SectionsOf(c) :
                       /\ sec.start_line - 1 = s
                       /\ sec.end_line - 1 = ExpectedEnd(s)

\* C8 witness: a section of more than one line that the next heading ends,
\* before the window and before the end of the text.
C8_Witness ==
    /\ DesignAReturned
    /\ \E c \in DOMAIN results : \E sec \in SectionsOf(c) :
           /\ sec.end_line > sec.start_line
           /\ LaterHeadings(sec.start_line - 1) # {}
           /\ sec.end_line - 1 = SetMin(LaterHeadings(sec.start_line - 1)) - 1
           /\ sec.end_line - 1 < sec.start_line - 1 + max_section_lines

\* C9 as stated: with no heading after the match the section ends at
\* start + max_section_lines - 1, or at the last line of a shorter text, so
\* that it spans at most max_section_lines lines (for a window of 1 or more).
C9_Original ==
    (DesignAReturned /\ max_section_lines >= 1) =>
        \A c \in DOMAIN results : \A sec \in SectionsOf(c) :
            LaterHeadings(sec.start_line - 1) = {}
                => sec.end_line - 1 =
                       Min2(sec.start_line - 1 + max_section_lines - 1, Len(lines) - 1)

\* C10: no line after the first line of a section, up to its end, is a
\* heading; two sections of one target that both start at a heading line
\* occupy disjoint line ranges.
C10_NoHeadingInside ==
    DesignAReturned =>
        \A c \in DOMAIN results :
            /\ \A sec \in SectionsOf(c) :
                   \A i \in 0..(Len(lines) - 1) :
                       (sec.start_line - 1 < i /\ i <= sec.end_line - 1)
                           => ~is_heading_line(lines[i + 1])
            /\ \A a, b \in SectionsOf(c) :
                   ( /\ a.start_line < b.start_line
                     /\ is_heading_line(lines[a.start_line])
                     /\ is_heading_line(lines[b.start_line]) )
                       => a.end_line < b.start_line

\* C10 witness: two sections of one target start at heading lines and the
\* first one has a body line.
C10_Witness ==
    /\ DesignAReturned
    /\ \E c \in DOMAIN results : \E a, b \in SectionsOf(c) :
           /\ a.start_line < b.start_line
           /\ a.end_line > a.start_line
           /\ is_heading_line(lines[a.start_line])
           /\ is_heading_line(lines[b.start_line])

\* ------------------------------------------------------------- claim C11
\* C11 as stated: every section either extractor produces ends at or after
\* its start: end_line >= start_line in Design A, for every text, target list
\* and integer max_section_lines, and end_pos >= start_pos in Design B.
C11_Original ==
    /\ DesignAReturned =>
           \A c \in DOMAIN results : \A sec \in SectionsOf(c) :
               sec.end_line >= sec.start_line
    /\ DesignBReturned =>
           \A i \in 1..Len(returned) : returned[i].end_pos >= returned[i].start_pos

\* ------------------------------------------------------------- claim C15
\* a "Section <number>" line whose next word starts with a lower-case letter
\* and that satisfies neither the all-caps nor the title-case heuristic
LowerCaseSectionLine(line) ==
    /\ Len(line) >= 3
    /\ line[1] = "Section"
    /\ IsNumber(line[2])
    /\ FirstIsLetter(line[3]) /\ ~FirstIsUpper(line[3])
    /\ ~AllCapsHeading(line)
    /\ ~TitleCaseHeading(line)

\* C15 as stated: a "Section <number>" line followed by a lower-case word
\* (and neither all-caps nor title-case) is not a heading, so it does not
\* terminate a Design A section: a section whose window reaches such a line,
\* with no other heading before it, contains the line.
C15_Original ==
    DesignAReturned =>
        \A c \in DOMAIN results : \A sec \in SectionsOf(c) :
            \A i \in 0..(Len(lines) - 1) :
                ( /\ LowerCaseSectionLine(lines[i + 1])
                  /\ sec.start_line - 1 < i
                  /\ i <= sec.start_line - 1 + max_section_lines
                  /\ \A h \in LaterHeadings(sec.start_line - 1) : h >= i )
                    => sec.end_line - 1 >= i

\* ------------------------------------------------------------- claim C12
\* C12: extraction never fails on empty text or on text with no match. Design
\* A returns one key per normalized requested target, and a target no line
\* matches (every target, for an empty text) is mapped to the empty list;
\* Design B's extract_sections and extract_by_type, for a type of the table,
\* return the empty list when no pattern matches, and raise nothing.
C12_EmptyResultNoError ==
    /\ DesignAReturned =>
           /\ DOMAIN results = { normalize_target(targets[i]) : i \in 1..Len(targets) }
           /\ \A c \in DOMAIN results : MatchIndices(c) = {} => results[c] = <<>>
    /\ ( /\ DesignBReturned
         /\ matches = <<>>
         /\ \A i \in 1..Len(covenant_types) : covenant_types[i] \in CovenantTypes )
           => returned = <<>> /\ raised = "none"

\* C12 witness: Design A has returned for a text of blank and body lines that
\* no requested target matches.
C12_Witness ==
    /\ DesignAReturned
    /\ Len(lines) >= 2
    /\ \E i \in 1..Len(lines) : lines[i] = <<>>
    /\ \E i \in 1..Len(lines) : lines[i] # <<>>
    /\ Len(targets) = 2
    /\ \A c \in DOMAIN results : MatchIndices(c) = {} /\ results[c] = <<>>

\* ------------------------------------------------------------- claim C13
NormalizeReturned == pc = "return" /\ op = "normalize_target"

\* C13: normalize_target is idempotent, and its result is lower-case (lower()
\* leaves it unchanged), has no leading or trailing whitespace and no run of
\* two or more whitespace characters.
C13_NormalizeIdempotent ==
    NormalizeReturned =>
        /\ normalize_target_chars(normalized) = normalized
        /\ LowerStr(normalized) = normalized
        /\ normalized # <<>> =>
               ~IsSpace(normalized[1]) /\ ~IsSpace(normalized[Len(normalized)])
        /\ \A i \in 1..(Len(normalized) - 1) :
               ~(IsSpace(normalized[i]) /\ IsSpace(normalized[i + 1]))

\* C13 witness: a name with a leading blank, a capital and an inner run of
\* two whitespace characters has been normalized to "a a".
C13_Witness ==
    /\ NormalizeReturned
    /\ target_name = <<" ", "A", "\t", " ", "a">>
    /\ normalized = <<"a", " ", "a">>

\* ------------------------------------------------------------- claim C14
HeadingReturned == pc = "return" /\ op = "is_heading_line"

\* number of words of the line that begin with an upper-case letter
CapitalizedWords(ws) == Cardinality({ i \in 1..Len(ws) : FirstIsUpper(ws[i]) })

\* C14: is_heading_line is true exactly when one of the three heuristics
\* holds: the Section-enumerator prefix (the pattern's "Section <number>"
\* followed by text that starts with a letter); a trimmed line of 8 or more
\* characters, all of them upper-case letters, digits, spaces or punctuation
\* of the class; a trimmed line of at most 120 characters with 2 or more
\* words of which more than 60% begin with an upper-case letter.  A blank
\* line is never a heading.
C14_HeadingIffHeuristic ==
    HeadingReturned =>
        /\ heading <=>
               \/ SectionHeading(text_line)
               \/ /\ LineLength(text_line) >= 8
                  /\ \A i \in 1..Len(text_line) : UpperOnly(text_line[i])
               \/ /\ LineLength(text_line) <= 120
                  /\ Len(text_line) >= 2
                  /\ 100 * CapitalizedWords(text_line) > 60 * Len(text_line)
        /\ text_line = <<>> => ~heading

\* C14 witness: a line of five words, three of them capitalized (exactly
\* 60%), that no heuristic accepts has been classified as not a heading.
C14_Witness ==
    /\ HeadingReturned
    /\ Len(text_line) = 5
    /\ CapitalizedWords(text_line) = 3
    /\ ~SectionHeading(text_line)
    /\ ~heading

\* ------------------------------------------------- claims C16, C17 and C18
LlmReturned == pc = "return" /\ op = "llm_extract_covenants"

\* the canonical names of the requested targets
RequestedCanonicals == { normalize_target(targets[i]) : i \in 1..Len(targets) }

\* C16: with no credential (api_key argument empty and OPENAI_API_KEY unset
\* or empty) llm_extract_covenants returns the empty mapping for every text
\* and target list, raises nothing, and has constructed no client and issued
\* no request.
C16_NoCredentialEmptyMapping ==
    (LlmReturned /\ api_key = "" /\ env_key = "") =>
        /\ llm_result = EmptyMapping
        /\ raised = "none"
        /\ ~client_constructed
        /\ requests_issued = 0

\* C16 witness: the call has returned with no credential although the
\* library is importable, the request would succeed and the reply would
\* carry an entry for a requested target.
C16_Witness ==
    /\ LlmReturned
    /\ api_key = "" /\ env_key = ""
    /\ importable /\ request_outcome = "ok"
    /\ Len(targets) = 2
    /\ reply_content.text = "json" /\ reply_content.json.type = "object"
    /\ <<"liens">> \in DOMAIN reply_content.json.members
    /\ llm_result = EmptyMapping

\* a reply has been received and parses as a JSON object
ReplyIsObject ==
    /\ Credential(api_key, env_key) # ""
    /\ importable
    /\ request_outcome = "ok"
    /\ LoadJson(reply_content).raised = "none"
    /\ LoadJson(reply_content).data.type = "object"

\* C17: with a credential and a reply that parses as a JSON object, the
\* mapping returned has exactly one entry per requested canonical target,
\* each with the keys title, excerpt and rationale; a target missing from
\* the reply, or mapped to a value that is not an object, gets empty strings
\* for all three.
C17_OneEntryPerTarget ==
    (LlmReturned /\ ReplyIsObject) =>
        /\ raised = "none"
        /\ DOMAIN llm_result = RequestedCanonicals
        /\ \A t \in RequestedCanonicals :
               /\ DOMAIN llm_result[t] = {"title", "excerpt", "rationale"}
               /\ LET members == LoadJson(reply_content).data.members
                  IN  (t \notin DOMAIN members \/ members[t].type # "object")
                          => \A k \in {"title", "excerpt", "rationale"} :
                                 llm_result[t][k] = JStr("")

\* C17 witness: two targets were requested; the reply gives an object with a
\* title for one and a string for the other.
C17_Witness ==
    /\ LlmReturned
    /\ ReplyIsObject
    /\ Cardinality(RequestedCanonicals) = 2
    /\ LET members == LoadJson(reply_content).data.members
       IN  /\ DOMAIN members = RequestedCanonicals
           /\ members[<<"liens">>].type = "object"
           /\ "title" \in DOMAIN members[<<"liens">>].members
           /\ members[<<"change", "of", "control">>] = JStr("x")
    /\ llm_result[<<"liens">>].title = JStr("T")
    /\ llm_result[<<"change", "of", "control">>].title = JStr("")

\* a reply has been received and is not JSON, or is JSON whose top level is
\* not an object
ReplyUnusable ==
    /\ Credential(api_key, env_key) # ""
    /\ importable
    /\ request_outcome = "ok"
    /\ \/ LoadJson(reply_content).raised # "none"
       \/ LoadJson(reply_content).data.type # "object"

\* C18: a reply that is invalid JSON, or JSON whose top level is not an
\* object, makes llm_extract_covenants return the empty mapping; no
\* exception reaches the caller.
C18_ParseFailureEmptyMapping ==
    (LlmReturned /\ ReplyUnusable) =>
        /\ llm_result = EmptyMapping
        /\ raised = "none"

\* C18 witness: targets were requested and the reply was a JSON array.
C18_Witness ==
    /\ LlmReturned
    /\ ReplyUnusable
    /\ targets # <<>>
    /\ reply_content.text = "json" /\ reply_content.json.type = "array"
    /\ llm_result = EmptyMapping
    /\ requests_issued = 1

\* ------------------------------------------------------ claims C19 and C20
\* the entry point has come to its end, by returning or by an exception
BatchEnded == op \in {"cli.main", "main", "extract_pdf_batch"} /\ pc \in {"return", "raised"}

\* document k was taken up by the loop
Reached(k) == k <= doc_index \/ (pc = "raised" /\ k = doc_index + 1)

HasOutput(k) == \E i \in 1..Len(outputs) : outputs[i].doc = k

HasOutputWith(k, key) ==
    \E i \in 1..Len(outputs) : outputs[i].doc = k /\ key \in outputs[i].keys

\* C19 as stated: in mode "both", for a document whose text extraction (and
\* so its regex extraction) succeeds, the output with the "regex" results is
\* written even when the model integration fails for that document (request
\* error or unparsable reply).
C19_Original ==
    (BatchEnded /\ op \in {"cli.main", "main"} /\ mode = "both") =>
        \A k \in 1..Len(pdf_files) :
            ( /\ Reached(k)
              /\ pdf_files[k].text = "ok"
              /\ pdf_files[k].llm # "ok" )
                => HasOutputWith(k, "regex")

\* processing document k fails: an exception, or a reported failure
DocumentFails(k) ==
    CASE op = "cli.main" -> CliLoopBody(pdf_files[k], mode, targets, env_key).raised # "none"
      [] op = "main" -> CompareAndSave(pdf_files[k], mode, env_key).keys = {}
      [] op = "extract_pdf_batch" -> ~PdfExtractText(pdf_files[k]).success

\* C20 as stated: when processing document k fails, every document after k
\* (that does not fail itself) is still processed and has its output when
\* the entry point ends.
C20_Original ==
    BatchEnded =>
        \A k \in 1..Len(pdf_files) : \A j \in 1..Len(pdf_files) :
            (k < j /\ DocumentFails(k) /\ ~DocumentFails(j)) => HasOutput(j)

\* ------------------------------------------------- CLI: inputs and outputs
MaxFiles == 2      \* most files below the --inputs directory

\* A path: the sub-directory below --inputs ("" for the directory itself),
\* the file name without its extension, and the extension.
Path(dir, stem, ext) == [dir |-> dir, stem |-> stem, ext |-> ext]

\* str.lower() on the extension
LowerExt(ext) == IF ext = ".PDF" THEN ".pdf" ELSE ext

\* os.path.splitext(os.path.basename(pdf_path))[0]: directory and extension dropped
BaseOf(pdf_path) == pdf_path.stem

\* os.path.join(args.out, f"{base}.json")
OutputPath(pdf_path) == Path("out", BaseOf(pdf_path), ".json")

\* the paths below --inputs in the order sorted() gives their strings:
\* "a/x.pdf" < "b/x.pdf" < "x.pdf" < "y.pdf"
PathOrder ==
    << Path("a", "x", ".pdf"), Path("a", "x", ".txt"), Path("a", "y", ".pdf"),
       Path("a", "y", ".txt"), Path("b", "x", ".pdf"), Path("b", "x", ".txt"),
       Path("b", "y", ".pdf"), Path("b", "y", ".txt"), Path("", "x", ".pdf"),
       Path("", "x", ".txt"), Path("", "y", ".pdf"), Path("", "y", ".txt") >>

\* what --inputs names: nothing ("missing"), a regular file with the state
\* of its text, or a directory with the files below it (path -> text state)
MissingInput(p) == [kind |-> "missing", path |-> p, text |-> "missing", tree |-> <<>>]
FileInput(p, state) == [kind |-> "file", path |-> p, text |-> state, tree |-> <<>>]
DirInput(tree) == [kind |-> "dir", path |-> Path("", "in", ""), text |-> "missing", tree |-> tree]

\* glob.glob(os.path.join(input_path, "**", "*.pdf"), recursive=True), sorted
SortedGlob(input) ==
    SelectSeq(PathOrder, LAMBDA p : p \in DOMAIN input.tree /\ p.ext = ".pdf")

\* cli.collect_pdfs
collect_pdfs(input) ==
    IF input.kind = "dir" THEN SortedGlob(input)
    ELSE IF LowerExt(input.path.ext) = ".pdf" THEN <<input.path>> ELSE <<>>

\* the document behind a collected path
DocumentAt(input, pdf_path) ==
    Document(IF input.kind = "dir" THEN input.tree[pdf_path] ELSE input.text, "ok")

\* open(output_path, "w") and json.dump: the file of that name is replaced
WriteFile(dir, output_path, pdf_path, keys) ==
    { f \in dir : f.name # output_path }
        \cup { [name |-> output_path, file |-> pdf_path, keys |-> keys] }

RECURSIVE MainLoop(_, _, _, _, _, _, _)
\* "for pdf_path in tqdm(pdf_files, ...)" of cli.main, from the k-th file on
MainLoop(input, files, k, mode_arg, names, env, state) ==
    IF k > Len(files) THEN state
    ELSE LET pdf_path == files[k]
             r == CliLoopBody(DocumentAt(input, pdf_path), mode_arg, names, env)
         IN  IF r.raised # "none"
             THEN [state EXCEPT !.raised = r.raised]
             ELSE MainLoop(input, files, k + 1, mode_arg, names, env,
                           [raised |-> "none",
                            dir |-> WriteFile(state.dir, OutputPath(pdf_path), pdf_path, r.keys),
                            printed |-> Append(state.printed, "Saved")])

\* cli.main: the exception that leaves it, the files of the output
\* directory (empty before the run) and the lines printed
CliMain(input, mode_arg, names, env) ==
    LET files == collect_pdfs(input) IN
    IF files = <<>>
    THEN [raised |-> "none", dir |-> {}, printed |-> <<"No PDF files found">>]
    ELSE MainLoop(input, files, 1, mode_arg, names, env,
                  [raised |-> "none", dir |-> {}, printed |-> <<>>])

\* ------------------------------------------ specification: CLI file handling
TreePaths == { PathOrder[i] : i \in 1..Len(PathOrder) }

Trees ==
    UNION { [S -> {"ok", "unreadable"}] :
            S \in { T \in SUBSET TreePaths : Cardinality(T) <= MaxFiles } }

InputNames == { Path("", "x", e) : e \in {".pdf", ".PDF", ".txt", ""} }

InputPaths ==
    { MissingInput(p) : p \in InputNames }
        \cup { FileInput(p, st) : p \in InputNames, st \in {"ok", "unreadable"} }
        \cup { DirInput(t) : t \in Trees }

InitCli ==
    /\ pc = "call"
    /\ op = "cli.main"
    /\ input_path \in InputPaths
    /\ mode \in {"regex", "llm", "both"}
    /\ env_key = ""
    /\ targets = << <<"Liens">> >>
    /\ pdf_files = <<>>
    /\ out_dir = {}
    /\ printed = <<>>
    /\ raised = "none"
    /\ doc_index = 0
    /\ outputs = <<>>
    /\ api_key = ""
    /\ importable = TRUE
    /\ request_outcome = "ok"
    /\ reply_content = <<>>
    /\ client_constructed = FALSE
    /\ requests_issued = 0
    /\ llm_result = <<>>
    /\ matches = <<>>
    /\ covenant_types = <<>>
    /\ lines = <<>>
    /\ max_section_lines = 0
    /\ results = <<>>
    /\ sections = <<>>
    /\ returned = <<>>
    /\ ScoreIdle
    /\ PatternIdle
    /\ PdfIdle
    /\ SpanIdle

\* cli.main run from its first line to its return or to the exception
RunCliMain ==
    /\ pc = "call"
    /\ op = "cli.main"
    /\ LET r == CliMain(input_path, mode, targets, env_key)
       IN  /\ pdf_files' = collect_pdfs(input_path)
           /\ out_dir' = r.dir
           /\ printed' = r.printed
           /\ raised' = r.raised
           /\ pc' = IF r.raised = "none" THEN "return" ELSE "raised"
    /\ UNCHANGED <<op, input_path, mode, doc_index, outputs, dedupVars, scoreVars,
                   matches, covenant_types, designAVars, patternVars, llmVars,
                   pdfVars, spanVars>>

NextCli == RunCliMain

SpecCli == InitCli /\ [][NextCli]_vars

\* ----------------------------------------------------- claims C21 and C22
CliEnded == op = "cli.main" /\ pc \in {"return", "raised"} /\ input_path # <<>>

\* --inputs names nothing, or a directory without a *.pdf file below it
NothingToProcess ==
    \/ input_path.kind = "missing"
    \/ input_path.kind = "dir" /\ SortedGlob(input_path) = <<>>

\* C21: when the input path does not exist, or is a directory whose recursive
\* *.pdf glob is empty, main prints a message and returns normally: no
\* exception leaves main and no result file is written.
C21_Original ==
    (CliEnded /\ NothingToProcess) =>
        /\ pc = "return"
        /\ raised = "none"
        /\ printed # <<>>
        /\ out_dir = {}

\* C22: after a run over N collected PDFs that all process successfully the
\* output directory holds N distinct result files, and each input has the
\* file named after it, holding the results of that input.
C22_Original ==
    (CliEnded /\ pc = "return") =>
        /\ Cardinality(out_dir) = Len(pdf_files)
        /\ \A k \in 1..Len(pdf_files) :
              \E f \in out_dir : f.name = OutputPath(pdf_files[k]) /\ f.file = pdf_files[k]

\* ---------------------------------------------------- Text Source (PDF text)
MaxPages == 2      \* most pages in a PDF, and largest max_pages tried

\* What file_path names: whether the file exists, whether fitz.open accepts
\* it, what page.get_text does on each page ("ok" or "fail"), what
\* pdfminer's extract_text does on the file, the form-feed separated chunks
\* of pdfminer's text, and what pdfplumber and PyPDF2 make of the file
\* ("text", "empty" for no text, "fail" for an exception).
PdfFile(exists, opens, pages, miner, chunks, plumber, pypdf2) ==
    [exists |-> exists, opens |-> opens, pages |-> pages, miner |-> miner,
     chunks |-> chunks, plumber |-> plumber, pypdf2 |-> pypdf2]

\* the outcome of a call: the exception raised or "none", the value
\* returned (a sequence of page texts), and the library calls made
Outcome(exc, val, calls) == [raised |-> exc, value |-> val, calls |-> calls]

\* _extract_with_pdfminer: RuntimeError when the import fails, else
\* whatever extract_text does
extract_with_pdfminer(file, miner_importable) ==
    IF ~miner_importable THEN Outcome("RuntimeError", <<>>, <<>>)
    ELSE IF file.miner = "fail"
         THEN Outcome("PDFSyntaxError", <<>>, <<"pdfminer.extract_text">>)
         ELSE Outcome("none", <<"text">>, <<"pdfminer.extract_text">>)

RECURSIVE ReadPages(_, _, _, _, _)
\* "for page_index, page in enumerate(document)" with the max_pages break;
\* page_index counts from 0
ReadPages(file, limit, page_index, texts, calls) ==
    IF page_index >= Len(file.pages) THEN Outcome("none", texts, calls)
    ELSE IF limit # <<>> /\ page_index >= limit[1] THEN Outcome("none", texts, calls)
    ELSE IF file.pages[page_index + 1] = "fail"
         THEN Outcome("ValueError", <<>>, Append(calls, "page.get_text"))
         ELSE ReadPages(file, limit, page_index + 1, Append(texts, "page"),
                        Append(calls, "page.get_text"))

\* document.close() after the block instead of in a finally clause
CloseOnReturnOnly(outcome) ==
    IF outcome.raised = "none"
    THEN [outcome EXCEPT !.calls = Append(@, "document.close")]
    ELSE outcome

\* try: ... finally: document.close()
FinallyClose(outcome) == [outcome EXCEPT !.calls = Append(@, "document.close")]

\* document = fitz.open(file_path), then the try / finally block
OpenAndRead(file, limit) ==
    IF ~file.opens THEN Outcome("FileDataError", <<>>, <<"fitz.open">>)
    ELSE FinallyClose(ReadPages(file, limit, 0, <<>>, <<"fitz.open">>))

\* "".join(extracted_pages).strip(): one text
JoinPages(outcome) ==
    IF outcome.raised = "none" THEN [outcome EXCEPT !.value = <<"text">>] ELSE outcome

\* pdf_utils.extract_text_from_pdf
ExtractTextFromPdf(file, lib, miner_importable, limit) ==
    IF ~file.exists THEN Outcome("FileNotFoundError", <<>>, <<>>)
    ELSE IF lib = "None" THEN extract_with_pdfminer(file, miner_importable)
    ELSE JoinPages(OpenAndRead(file, limit))

\* text.split("\f") and chunks[:max_pages] on pdfminer's text
SplitChunks(file, outcome, limit) ==
    IF outcome.raised # "none" THEN outcome
    ELSE [outcome EXCEPT !.value =
            IF limit = <<>> THEN file.chunks ELSE PySlice(file.chunks, 0, limit[1])]

\* pdf_utils.extract_text_by_page
ExtractTextByPage(file, lib, miner_importable, limit) ==
    IF ~file.exists THEN Outcome("FileNotFoundError", <<>>, <<>>)
    ELSE IF lib = "None" THEN SplitChunks(file, extract_with_pdfminer(file, miner_importable), limit)
    ELSE OpenAndRead(file, limit)

\* PDFExtractor.extract_text_pdfplumber / extract_text_pypdf2: the text, ""
\* when the library raises
TextOr(empty, library_outcome) ==
    IF library_outcome = "text" THEN "text" ELSE empty

\* PDFExtractor.extract_text(pdf_path, "best"): pdfplumber first, PyPDF2
\* when pdfplumber gave no text; value is <<>> for success False
ExtractTextBest(file) ==
    IF ~file.exists THEN Outcome("FileNotFoundError", <<>>, <<>>)
    ELSE IF TextOr("", file.plumber) # ""
         THEN Outcome("none", <<"text">>, <<"pdfplumber.open">>)
         ELSE Outcome("none",
                      IF TextOr("", file.pypdf2) # "" THEN <<"text">> ELSE <<>>,
                      <<"pdfplumber.open", "PyPDF2.PdfReader">>)

\* ------------------------------------------------ specification: Text Source
PageLists == UNION { [1..n -> {"ok", "fail"}] : n \in 0..MaxPages }

ChunkLists == { <<"text">>, <<"text", "text">> }

\* max_pages: None, or a number of pages
PageLimits == { <<>> } \cup { <<n>> : n \in 0..MaxPages }

InitPdf ==
    /\ pc = "call"
    /\ \/ /\ op \in {"extract_text_from_pdf", "extract_text_by_page"}
          /\ fitz \in {"module", "None"}
          /\ pdfminer \in BOOLEAN
          /\ max_pages \in PageLimits
          /\ \E e \in BOOLEAN, o \in BOOLEAN, ps \in PageLists,
                m \in {"ok", "fail"}, cs \in ChunkLists :
                file_path = PdfFile(e, o, ps, m, cs, "text", "text")
       \/ /\ op = "PDFExtractor.extract_text"
          /\ fitz = "None"
          /\ pdfminer = FALSE
          /\ max_pages = <<>>
          /\ \E e \in BOOLEAN, pl \in {"text", "empty", "fail"},
                py \in {"text", "empty", "fail"} :
                file_path = PdfFile(e, TRUE, <<>>, "ok", <<"text">>, pl, py)
    /\ library_calls = <<>>
    /\ returned = <<>>
    /\ raised = "none"
    /\ sections = <<>>
    /\ matches = <<>>
    /\ covenant_types = <<>>
    /\ ScoreIdle
    /\ DesignAIdle
    /\ PatternIdle
    /\ LlmIdle
    /\ CliIdle
    /\ FileIdle
    /\ SpanIdle

pdfFixed == <<op, sections, scoreVars, matches, covenant_types, designAVars,
              patternVars, llmVars, cliVars, fileVars, spanVars,
              fitz, pdfminer, file_path, max_pages>>

\* the call ends: its exception or its value, and the library calls it made
Finish(outcome) ==
    /\ raised' = outcome.raised
    /\ returned' = outcome.value
    /\ library_calls' = outcome.calls
    /\ pc' = IF outcome.raised = "none" THEN "return" ELSE "raised"
    /\ UNCHANGED pdfFixed

CallExtractTextFromPdf ==
    /\ pc = "call"
    /\ op = "extract_text_from_pdf"
    /\ Finish(ExtractTextFromPdf(file_path, fitz, pdfminer, max_pages))

CallExtractTextByPage ==
    /\ pc = "call"
    /\ op = "extract_text_by_page"
    /\ Finish(ExtractTextByPage(file_path, fitz, pdfminer, max_pages))

CallExtractTextBest ==
    /\ pc = "call"
    /\ op = "PDFExtractor.extract_text"
    /\ Finish(ExtractTextBest(file_path))

NextPdf == CallExtractTextFromPdf \/ CallExtractTextByPage \/ CallExtractTextBest

SpecPdf == InitPdf /\ [][NextPdf]_vars

\* ----------------------------------------------------- claims C23 and C24
PdfUtilsEnded ==
    /\ op \in {"extract_text_from_pdf", "extract_text_by_page"}
    /\ pc \in {"return", "raised"}

CallCount(call) ==
    Cardinality({ i \in 1..Len(library_calls) : library_calls[i] = call })

\* the document was opened: fitz.open was called and returned a document
Opened == fitz = "module" /\ file_path.exists /\ file_path.opens

\* C23: on every exit path after the document was opened (normal return,
\* max_pages break, exception while reading a page) the handle has been
\* closed exactly once, as the last library call, when the call returns or
\* raises; a handle is never closed without having been opened; and a
\* missing file raises FileNotFoundError before any library is called.
C23_HandleClosedOnce ==
    PdfUtilsEnded =>
        /\ Opened =>
              /\ CallCount("fitz.open") = 1
              /\ CallCount("document.close") = 1
              /\ library_calls[Len(library_calls)] = "document.close"
        /\ ~Opened => CallCount("document.close") = 0
        /\ ~file_path.exists =>
              /\ raised = "FileNotFoundError"
              /\ library_calls = <<>>

\* a page fails after an earlier page was read: the call raises with the
\* handle closed
C23_Witness ==
    /\ PdfUtilsEnded
    /\ Opened
    /\ pc = "raised"
    /\ CallCount("page.get_text") = 2
    /\ CallCount("document.close") = 1

\* the primary library is there and fails on the document
PrimaryFails ==
    /\ fitz = "module"
    /\ file_path.exists
    /\ \/ ~file_path.opens
       \/ \E i \in 1..Len(file_path.pages) :
             /\ file_path.pages[i] = "fail"
             /\ max_pages # <<>> => i <= max_pages[1]
             /\ \A j \in 1..(i - 1) : file_path.pages[j] = "ok"

\* C24: the alternate PDF library is tried both when the primary library is
\* unavailable and when the primary library fails on a document; an error
\* of the primary library does not reach the caller before the alternate
\* library was tried.
C24_Original ==
    PdfUtilsEnded =>
        /\ (file_path.exists /\ fitz = "None" /\ pdfminer) =>
              CallCount("pdfminer.extract_text") = 1
        /\ (PrimaryFails /\ pdfminer) =>
              CallCount("pdfminer.extract_text") = 1

\* --------------------------------------------- Design B: the section span
MaxPieces == 4     \* most pieces in a text given to _extract_full_section

\* Text is a sequence of pieces, each a run of characters of one kind:
\* "word" (characters that are not white space; a "." is one of them),
\* "section" (the seven letters of the word section, in any case), "nl"
\* (line breaks) and "sp" (blanks).  Positions count characters from 0.
Piece(kind, len) == [kind |-> kind, len |-> len]

IsWhite(piece) == piece.kind \in {"nl", "sp"}

RECURSIVE TextLen(_)
\* len(text)
TextLen(t) == IF t = <<>> THEN 0 ELSE Head(t).len + TextLen(Tail(t))

\* the position of the first character of the i-th piece
OffsetOf(t, i) == TextLen(SubSeq(t, 1, i - 1))

RECURSIVE Merge(_)
\* the same characters with adjacent runs of one kind written as one run
Merge(t) ==
    IF Len(t) <= 1 THEN t
    ELSE LET rest == Merge(Tail(t)) IN
         IF Head(t).kind = Head(rest).kind
         THEN <<Piece(Head(t).kind, Head(t).len + Head(rest).len)>> \o Tail(rest)
         ELSE <<Head(t)>> \o rest

RECURSIVE Clip(_, _, _)
\* the characters of t at positions a .. b - 1, for 0 <= a
Clip(t, a, b) ==
    IF t = <<>> \/ b <= 0 THEN <<>>
    ELSE LET n == Head(t).len
             from == Max2(a, 0)
             to == Min2(b, n)
             rest == Clip(Tail(t), a - n, b - n)
         IN  IF to > from THEN <<Piece(Head(t).kind, to - from)>> \o rest ELSE rest

\* text[a:b] for 0 <= a
TextSlice(t, a, b) == Merge(Clip(t, a, b))

\* a section boundary starts at the i-th piece: "section", white space, then
\* a digit or (the patterns ignore case) a letter.  The search runs on
\* text[initial_end:], so the occurrence lies at or after from.
BoundaryAt(t, i, from) ==
    /\ t[i].kind = "section"
    /\ OffsetOf(t, i) >= from
    /\ \E j \in (i + 2)..Len(t) :
          /\ ~IsWhite(t[j])
          /\ \A k \in (i + 1)..(j - 1) : IsWhite(t[k])

\* the positions of the section boundaries found in text[initial_end:]
BoundaryPositions(t, from) ==
    { OffsetOf(t, i) : i \in { k \in 1..Len(t) : BoundaryAt(t, k, from) } }

\* the first loop: the smallest boundary position, len(text) without one
NextSectionPos(t, from) ==
    LET found == BoundaryPositions(t, from) IN
    IF found = {} THEN TextLen(t)
    ELSE CHOOSE p \in found : \A q \in found : p <= q

RECURSIVE RFindPara(_, _)
\* section_text.rfind('\n\n') on a merged text that starts at position
\* offset: the last two positions of the last run of two or more line
\* breaks, -1 without such a run
RFindPara(t, offset) ==
    IF t = <<>> THEN -1
    ELSE LET later == RFindPara(Tail(t), offset + Head(t).len) IN
         IF later # -1 THEN later
         ELSE IF Head(t).kind = "nl" /\ Head(t).len >= 2
              THEN offset + Head(t).len - 2
              ELSE -1

\* n * 0.7 in binary64 is below the exact product: 0.7 is stored as a number
\* a little below 7/10, and the product of a multiple of 10 rounds down to
\* the next lower double when 7n/10 lies in the upper eighth of its binade
RoundsBelow(n) ==
    /\ n % 10 = 0
    /\ \E m \in 0..12 : 4 * n > 5 * 2^m /\ 7 * n <= 10 * 2^m

\* last_para > len(section_text) * 0.7 as the float comparison decides it
PastSeventyPercent(last_para, n) ==
    IF RoundsBelow(n) THEN 10 * last_para >= 7 * n ELSE 10 * last_para > 7 * n

RECURSIVE StripTextEnd(_)
StripTextEnd(t) ==
    IF t = <<>> THEN <<>>
    ELSE IF IsWhite(t[Len(t)]) THEN StripTextEnd(SubSeq(t, 1, Len(t) - 1))
    ELSE t

RECURSIVE StripTextStart(_)
StripTextStart(t) ==
    IF t = <<>> THEN <<>>
    ELSE IF IsWhite(Head(t)) THEN StripTextStart(Tail(t))
    ELSE t

\* str.strip()
StripText(t) == StripTextStart(StripTextEnd(t))

\* max_length = 5000
MaxLength == 5000

\* end_pos = next_section_pos
EndPosUncapped(t, from, to) == NextSectionPos(t, to)

\* end_pos = min(next_section_pos, start_pos + max_length)
EndPos(t, from, to) == Min2(NextSectionPos(t, to), from + MaxLength)

\* section_text[:last_para] when the paragraph break is past 70%
TrimToParagraph(section_text) ==
    LET last_para == RFindPara(section_text, 0) IN
    IF PastSeventyPercent(last_para, TextLen(section_text))
    THEN TextSlice(section_text, 0, last_para)
    ELSE section_text

\* RegexCovenantExtractor._extract_full_section
extract_full_section(t, from, to) ==
    StripText(TrimToParagraph(TextSlice(t, from, EndPos(t, from, to))))

\* ------------------------------------------- specification: section span
PieceKinds ==
    { Piece("word", 25), Piece("word", 63), Piece("word", 4990), Piece("section", 7),
      Piece("nl", 1), Piece("nl", 2), Piece("sp", 1) }

PieceLists == UNION { [1..n -> PieceKinds] : n \in 1..MaxPieces }

\* Every covenant pattern starts with a letter and ends, being greedy, at
\* the end of the text or in front of a ".": the match starts at a piece of
\* letters and ends at the end of the text or in front of a word piece.
MatchStarts(t) ==
    { OffsetOf(t, i) : i \in { k \in 1..Len(t) : t[k].kind \in {"word", "section"} } }

MatchEnds(t, from) ==
    { TextLen(t) } \cup
    { OffsetOf(t, i) : i \in { k \in 1..Len(t) : t[k].kind = "word" /\ OffsetOf(t, k) > from } }

InitSpan ==
    /\ pc = "call"
    /\ op = "_extract_full_section"
    /\ text \in PieceLists
    /\ start_pos \in MatchStarts(text)
    /\ initial_end \in MatchEnds(text, start_pos)
    /\ returned = <<>>
    /\ sections = <<>>
    /\ config = Config(0, 0)
    /\ value = 0
    /\ confidence = 0
    /\ DesignBIdle
    /\ DesignAIdle
    /\ PatternIdle
    /\ LlmIdle
    /\ CliIdle
    /\ FileIdle
    /\ PdfIdle

ExtractFullSection ==
    /\ pc = "call"
    /\ op = "_extract_full_section"
    /\ returned' = extract_full_section(text, start_pos, initial_end)
    /\ pc' = "return"
    /\ UNCHANGED <<op, sections, scoreVars, designBVars, designAVars, patternVars,
                   llmVars, cliVars, fileVars, pdfVars, spanVars>>

NextSpan == ExtractFullSection

SpecSpan == InitSpan /\ [][NextSpan]_vars

\* ------------------------------------------------ claims C25, C26 and C28
SpanReturned == pc = "return" /\ op = "_extract_full_section"

\* the end of the span: the nearest section boundary at or after the match
\* end, the match start plus 5000, or the end of the text, whichever is first
SpanCut ==
    LET ends == {start_pos + 5000, TextLen(text)}
                    \cup BoundaryPositions(text, initial_end)
    IN  CHOOSE p \in ends : \A q \in ends : p <= q

\* the 5000-character cap, not a boundary or the end of the text, ends the span
CutByCap ==
    \A p \in {TextLen(text)} \cup BoundaryPositions(text, initial_end) :
        start_pos + 5000 < p

\* the characters from the match start to the end of the span
Span == TextSlice(text, start_pos, SpanCut)

\* the merged text p is the beginning of the merged text t
IsTextPrefix(p, t) ==
    \/ p = <<>>
    \/ /\ Len(p) <= Len(t)
       /\ \A i \in 1..(Len(p) - 1) : p[i] = t[i]
       /\ p[Len(p)].kind = t[Len(p)].kind
       /\ p[Len(p)].len <= t[Len(p)].len

\* C25: the content _extract_full_section returns is at most 5000
\* characters long and is taken from the span that starts at the match
\* start and ends at min(nearest section boundary at or after the match
\* end, match start + 5000, end of text): it is a beginning of that span,
\* and the whole span (stripped) when the span has no paragraph break.
C25_ContentWithinSpan ==
    SpanReturned =>
        /\ TextLen(returned) <= 5000
        /\ IsTextPrefix(returned, Span)
        /\ RFindPara(Span, 0) = -1 => returned = StripText(Span)

\* the text goes on past the cap and the content fills all 5000 characters
C25_Witness ==
    /\ SpanReturned
    /\ CutByCap
    /\ TextLen(returned) = 5000

\* C26: the span is trimmed back to its last blank-line boundary exactly
\* when that boundary lies past 70% of the span's length; when it lies at or
\* before 70% (or there is none) the span is kept up to its cut point.
C26_Original ==
    SpanReturned =>
        LET last_para == RFindPara(Span, 0) IN
        returned = IF last_para # -1 /\ 10 * last_para > 7 * TextLen(Span)
                   THEN StripText(TextSlice(Span, 0, last_para))
                   ELSE StripText(Span)

\* C28: a span that was not cut by the 5000-character cap (it ends at a
\* section boundary or at the end of the text) is returned whole, apart
\* from leading and trailing white space.
C28_Original ==
    (SpanReturned /\ ~CutByCap) => returned = StripText(Span)

\* ------------------------------- specification: the order of the results
\* Design A on every text with the smallest and the largest window; Design B
\* (extract_sections and extract_by_type) on the matches whose content is
\* empty or scores above the floor.
OrderContents == { <<>>, <<"A", "b">>, <<"b", "a", "c">> }

InitOrder ==
    \/ InitDesignA /\ max_section_lines \in {1, MaxWindow}
    \/ /\ InitDesignB
       /\ op \in {"extract_sections", "extract_by_type"}
       /\ \A i \in 1..Len(matches) : matches[i].content \in OrderContents

NextOrder == ExtractCovenantsFromText \/ ExtractSections \/ ExtractByType

SpecOrder == InitOrder /\ [][NextOrder]_vars

\* ------------------------------------------------------------- claim C27
\* C27: within every result sequence the sections appear in ascending start
\* position: start_line is strictly increasing within each target's list in
\* Design A, and start_pos is non-decreasing in the list extract_sections
\* and extract_by_type return in Design B.
C27_AscendingStart ==
    /\ DesignAReturned =>
          \A c \in DOMAIN results :
              \A i \in 1..Len(results[c]), j \in 1..Len(results[c]) :
                  i < j => results[c][i].start_line < results[c][j].start_line
    /\ (DesignBReturned /\ op \in {"extract_sections", "extract_by_type"}) =>
          \A i \in 1..Len(returned), j \in 1..Len(returned) :
              i < j => returned[i].start_pos <= returned[j].start_pos

\* extract_sections collected a later section before an earlier one and
\* returns both, the earlier one first
C27_Witness ==
    /\ DesignBReturned
    /\ op = "extract_sections"
    /\ Len(sections) = 2
    /\ sections[1].start_pos > sections[2].start_pos
    /\ returned = <<sections[2], sections[1]>>

\* ------------------------------------------------------------- claim C29
RECURSIVE IsSubsequence(_, _)
\* the elements of part occur in whole, in the same order
IsSubsequence(part, whole) ==
    IF part = <<>> THEN TRUE
    ELSE IF whole = <<>> THEN FALSE
    ELSE IF Head(part) = Head(whole) THEN IsSubsequence(Tail(part), Tail(whole))
    ELSE IsSubsequence(part, Tail(whole))

\* the first candidate of sorted that has the maximum confidence
FirstMaximum(sorted) ==
    LET best == { i \in 1..Len(sorted) :
                    \A j \in 1..Len(sorted) : sorted[j].confidence <= sorted[i].confidence }
    IN  sorted[CHOOSE i \in best : \A j \in best : i <= j]

\* the k-th candidate of sorted (the list as sections.sort leaves it) removes
\* an accepted section from the list accepted before it
Evicts(sorted, k) ==
    LET before == OuterLoop(SubSeq(sorted, 1, k - 1), <<>>)
    IN  InnerLoop(sorted[k], before, 1).deduplicated # before

\* the k-th candidate of sorted is appended to the accepted list
Accepted(sorted, k) ==
    ~InnerLoop(sorted[k], OuterLoop(SubSeq(sorted, 1, k - 1), <<>>), 1).overlaps

\* C29: the result of _deduplicate_sections is a sub-list of its input (as
\* the sort leaves it); for a non-empty input it is not empty and contains
\* the maximum-confidence candidate that comes first in start-position
\* order; and a candidate that evicts an accepted section is itself accepted.
C29_MaximumKept ==
    DedupReturned =>
        LET sorted == SortByStart(sections) IN
        /\ IsSubsequence(returned, sorted)
        /\ sections # <<>> =>
              /\ returned # <<>>
              /\ \E i \in 1..Len(returned) : returned[i] = FirstMaximum(sorted)
        /\ \A k \in 2..Len(sorted) : Evicts(sorted, k) => Accepted(sorted, k)

\* a later candidate of higher confidence evicts an accepted section and is
\* in the result, the evicted section is not
C29_Witness ==
    /\ DedupReturned
    /\ LET sorted == SortByStart(sections) IN
       \E k \in 2..Len(sorted) :
          /\ Evicts(sorted, k)
          /\ sorted[k] = FirstMaximum(sorted)
          /\ Count(returned, sorted[k]) = 1
          /\ Count(returned, sorted[1]) = 0

\* ------------------------------------------- LLM extractor: deduplication
MaxLlmSections == 3  \* longest list given to LLMCovenantExtractor._deduplicate_sections

\* LLMCovenantSection: title, key_terms and reasoning are left out, the
\* deduplication reads section_type, content and confidence only.  The
\* content is a sequence of words; word n is written -n when it is spelled
\* with upper-case letters.
LLMCovenantSection(type, content, conf) ==
    [section_type |-> type, content |-> content, confidence |-> conf]

\* str.lower() on a word
LowerOf(w) == IF w < 0 THEN -w ELSE w

\* set(text.lower().split())
WordSet(content) == { LowerOf(content[i]) : i \in 1..Len(content) }

\* self._similarity(text1, text2) > 0.8: the Jaccard index of the two word
\* sets, 0.0 when one of them is empty
SimilarityAbove(text1, text2) ==
    LET words1 == WordSet(text1)
        words2 == WordSet(text2)
    IN  /\ words1 # {}
        /\ words2 # {}
        /\ 5 * Cardinality(words1 \cap words2) > 4 * Cardinality(words1 \cup words2)

\* the test of the inner loop
VerySimilar(section, existing) ==
    /\ section.section_type = existing.section_type
    /\ SimilarityAbove(section.content, existing.content)

RECURSIVE UniqueLoop(_, _, _)
\* "for existing in unique_sections": the iterator is an index j into the
\* list, so a remove() during the loop shifts the later elements one down
\* while j still advances
UniqueLoop(section, unique_sections, j) ==
    IF j > Len(unique_sections)
    THEN [unique_sections |-> unique_sections, is_duplicate |-> FALSE]
    ELSE LET existing == unique_sections[j] IN
         IF VerySimilar(section, existing)
         THEN IF section.confidence > existing.confidence
              THEN UniqueLoop(section, ListRemove(unique_sections, existing), j + 1)
              ELSE [unique_sections |-> unique_sections, is_duplicate |-> TRUE]
         ELSE UniqueLoop(section, unique_sections, j + 1)

RECURSIVE SectionLoop(_, _)
\* "for section in sections"
SectionLoop(list, unique_sections) ==
    IF list = <<>> THEN unique_sections
    ELSE LET r == UniqueLoop(Head(list), unique_sections, 1) IN
         SectionLoop(Tail(list),
                     IF r.is_duplicate THEN r.unique_sections
                     ELSE Append(r.unique_sections, Head(list)))

\* LLMCovenantExtractor._deduplicate_sections
llm_deduplicate_sections(list) ==
    IF list = <<>> THEN <<>> ELSE SectionLoop(list, <<>>)

\* ------------------------------------ specification: LLM deduplication
\* Contents: ten words; the first nine of them; the last nine of them (each
\* shares 9 of 10 words with the first, the two share 8 of 10); the ten
\* words with one in upper case; no word at all.
TenWords == <<1, 2, 3, 4, 5, 6, 7, 8, 9, 10>>

LlmContents ==
    { TenWords, SubSeq(TenWords, 1, 9), SubSeq(TenWords, 2, 10),
      <<-1>> \o SubSeq(TenWords, 2, 10), <<>> }

LlmCandidates ==
    { LLMCovenantSection("liens", c, k) : c \in LlmContents, k \in 1..2 }
        \cup { LLMCovenantSection("investments", TenWords, k) : k \in 1..2 }

LlmSectionLists == UNION { [1..n -> LlmCandidates] : n \in 0..MaxLlmSections }

InitLlmDedup ==
    /\ pc = "call"
    /\ op = "LLMCovenantExtractor._deduplicate_sections"
    /\ sections \in LlmSectionLists
    /\ returned = <<>>
    /\ ScoreIdle
    /\ SourceIdle
    /\ DesignBIdle
    /\ DesignAIdle
    /\ PatternIdle
    /\ LlmIdle
    /\ CliIdle

LlmDeduplicate ==
    /\ pc = "call"
    /\ op = "LLMCovenantExtractor._deduplicate_sections"
    /\ returned' = llm_deduplicate_sections(sections)
    /\ pc' = "return"
    /\ UNCHANGED <<op, sourceVars, sections, scoreVars, designBVars, designAVars,
                   patternVars, llmVars, cliVars>>

NextLlmDedup == LlmDeduplicate

SpecLlmDedup == InitLlmDedup /\ [][NextLlmDedup]_vars

\* ------------------------------------------------------------- claim C30
LlmDedupReturned ==
    pc = "return" /\ op = "LLMCovenantExtractor._deduplicate_sections"

\* C30: after LLMCovenantExtractor._deduplicate_sections no two remaining
\* sections have the same section_type and a content similarity above 0.8,
\* and no section is removed unless a section of the same type with
\* similarity above 0.8 and confidence at least as high remains.
C30_Original ==
    LlmDedupReturned =>
        /\ \A i \in 1..Len(returned), j \in 1..Len(returned) :
              i # j => ~VerySimilar(returned[i], returned[j])
        /\ \A k \in 1..Len(sections) :
              Absent(sections[k]) =>
                  \E i \in 1..Len(returned) :
                      /\ VerySimilar(sections[k], returned[i])
                      /\ returned[i].confidence >= sections[k].confidence

====
